---- MODULE Spec2Model ----
(***************************************************************************)
(* Playback engine of the avalanche viewer (core/AvalancheSimulation.ts)   *)
(* with the frame loader it awaits (core/TiffLoader.ts), the browser's     *)
(* interval timers and the SceneView graphics collection it draws on.      *)
(*                                                                         *)
(* JavaScript runs every method to completion, so one method call is one   *)
(* action; the only suspension points are the awaits of initialize.        *)
(* Methods are state transformers over a "world" record w = the engine     *)
(* object plus the pieces of the environment the method touches.           *)
(***************************************************************************)
EXTENDS Integers, Sequences, FiniteSets, TLC

VARIABLES
    sim,           \* the AvalancheSimulation object (its private fields)
    timers,        \* live setInterval timers: id -> period in ms
    graphics,      \* Graphic objects reachable from the engine or the view
    viewGraphics,  \* view.graphics: ids of the graphics attached to the view
    emitted,       \* events passed to emit() during the last call, in order
    lastOp,        \* the last call made on the engine, with the frame index
                   \* (displayFrame) and the play state it was made in
    quiet,         \* pause() has returned and play() was not called since
    initPc,        \* position of the async initialize()
    loadCache,     \* preloadAllFrames: its local frameCache
    loadedCount,   \* preloadAllFrames: its local loadedCount
    loaderLog,     \* preloadAllFrames: the fetches it started, how each
                   \* ended and the onProgress calls it made, in order
    initialBuild,  \* the meshes initialize() built, and the setSmoothing(3)
                   \* call and the setSmoothing call made right after it
    disposed,      \* dispose() was called, and initialize() not since
    manager,       \* the SimulationManager object (its private fields)
    engines,       \* the engines the manager has initialized: each with its
                   \* timers and its graphics on the view
    tasks,         \* the manager's async calls that are suspended at an await
    managerOp,     \* the last step of a manager call, with the events the
                   \* call has emitted
    calc           \* a call of a grid or colour function of utils and
                   \* MeshGenerator: its arguments and, once made, its result

engineVars == <<sim, timers, graphics, viewGraphics, emitted, lastOp, quiet,
                initPc, loadCache, loadedCount, loaderLog, initialBuild,
                disposed>>

managerVars == <<manager, engines, tasks, managerOp>>

gridVars == <<calc>>

vars == <<engineVars, managerVars, gridVars>>

----------------------------------------------------------------------------
(* Bounds of the model *)

MaxSteps == 2         \* time steps of the longest simulation
MaxTimers == 2        \* play is not offered once this many timers are live
MaxStart == 2         \* largest timeRange start given to the loader
MaxEnd == 4           \* largest timeRange end given to the loader
MaxInterval == 2      \* largest timeInterval given to the loader
MaxStops == 3         \* stops of the longest enumerated colour-stop list
MaxPasses == 2        \* smoothing passes of a call of the grid functions
MaxRes == 23          \* resolution of the largest grid that is interpolated
MaxTasks == 2         \* manager calls suspended at an await at a time

(* Program constants *)

DefaultPlaybackSpeed == 1000
DefaultSmoothingFactor == 2
DefaultFlattenPasses == 5

(* null of `currentFrameTime: number | null` *)
NoTime == -1

(* null of `animationInterval`; setInterval handles are positive *)
NoTimer == 0

(* Inputs *)

\* avalanche configs: timeRange [start, end] and timeInterval
\* (k steps 0, 2, .. for k >= 1; none when start > end)
Configs ==
    { [timeRange |-> <<0, 2 * (k - 1)>>, timeInterval |-> 2] : k \in 1 .. MaxSteps }
    \cup { [timeRange |-> <<1, 0>>, timeInterval |-> 1] }

\* the configs the frame loader is run on: integer timeRange [start, end],
\* start > end among them, and timeInterval > 0
LoaderConfigs ==
    { [timeRange |-> <<start, end>>, timeInterval |-> interval] :
        start \in 0 .. MaxStart, end \in 0 .. MaxEnd, interval \in 1 .. MaxInterval }

Speeds == {500, 1000}             \* values of PLAYBACK_SPEEDS
SmoothingFactors == {1, 2, 3}     \* values of SMOOTHING_FACTOR_OPTIONS
FlattenPassOptions == {0, 5}      \* values of FLATTEN_PASS_OPTIONS
NonZeroCounts == {0, 3}           \* nonZeroCount of a decoded frame
FrameIndices == -1 .. MaxSteps    \* arguments of displayFrame
\* arguments of seekToTime: the first step, between two steps, past the last
SeekTimes == {0, 1, 2 * MaxSteps - 1}

EventTypes == {"frameChange", "playStateChange", "ready"}

\* what a subscribed handler does when it is called:
\*   observer    - looks at the event only (the handlers of main.ts)
\*   pauseOnPlay - calls pause() when told that playback started
\*   playOnPause - calls play() when told that playback stopped
ObserverKinds == {"observer"}
ReactiveKinds == {"pauseOnPlay", "playOnPause"}

----------------------------------------------------------------------------
(* Helpers *)

Range(f) == { f[x] : x \in DOMAIN f }

\* JavaScript array read a[i] with a 0-based index; undefined outside
HasIndex(a, i) == i \in 0 .. (Len(a) - 1)

At(a, i) == a[i + 1]

\* f with key k set to v (Map.set)
MapSet(f, k, v) == [x \in (DOMAIN f) \cup {k} |-> IF x = k THEN v ELSE f[x]]

EmptyMap == [x \in {} |-> 0]

\* the smallest positive integer not in S (a handle no live object has)
Fresh(S) == CHOOSE i \in 1 .. (Cardinality(S) + 1) :
               /\ i \notin S
               /\ \A j \in 1 .. (i - 1) : j \in S

----------------------------------------------------------------------------
(* core/TiffLoader.ts *)

RECURSIVE StepsFrom(_, _, _)
StepsFrom(t, end, interval) ==
    IF t <= end THEN <<t>> \o StepsFrom(t + interval, end, interval)
    ELSE <<>>

\* generateTimeSteps with `t < end` as the loop condition
generateTimeSteps_exclusiveEnd(config) ==
    StepsFrom(config.timeRange[1], config.timeRange[2] - 1, config.timeInterval)

generateTimeSteps(config) ==
    StepsFrom(config.timeRange[1], config.timeRange[2], config.timeInterval)

\* the loader between two awaits: l = [frameCache, loadedCount, log]

\* the top of the loop body for the next time step, if there is one:
\* loadTiffFrame is called and fetches
beginFetch(l, timeSteps) ==
    IF l.loadedCount < Len(timeSteps)
    THEN [l EXCEPT !.log = Append(@, [ev |-> "fetch",
                                      time |-> timeSteps[l.loadedCount + 1]])]
    ELSE l

\* loop body that reports progress inside the try block, after the frame
\* was stored
endFetch_progressInTry(l, total, time, outcome, data) ==
    IF outcome = "ok"
    THEN [l EXCEPT !.frameCache = MapSet(@, time, data),
                   !.loadedCount = @ + 1,
                   !.log = @ \o << [ev |-> "loaded", time |-> time],
                                   [ev |-> "progress", loaded |-> l.loadedCount + 1,
                                    total |-> total] >>]
    ELSE [l EXCEPT !.log = Append(@, [ev |-> "failed", time |-> time])]

\* loop body that returns what it has when a frame fails to load
endFetch_abortOnError(l, total, time, outcome, data) ==
    IF outcome = "ok"
    THEN [l EXCEPT !.frameCache = MapSet(@, time, data),
                   !.loadedCount = @ + 1,
                   !.log = @ \o << [ev |-> "loaded", time |-> time],
                                   [ev |-> "progress", loaded |-> l.loadedCount + 1,
                                    total |-> total] >>]
    ELSE [l EXCEPT !.loadedCount = total,
                   !.log = Append(@, [ev |-> "failed", time |-> time])]

\* the rest of the loop body, from the end of `await loadTiffFrame`, by a
\* decoded frame or by an error, to the onProgress call
endFetch(l, total, time, outcome, data) ==
    LET l1 == IF outcome = "ok"
              THEN [l EXCEPT !.frameCache = MapSet(@, time, data),
                             !.log = Append(@, [ev |-> "loaded", time |-> time])]
              ELSE [l EXCEPT !.log = Append(@, [ev |-> "failed", time |-> time])]
        l2 == [l1 EXCEPT !.loadedCount = @ + 1]
    IN  [l2 EXCEPT !.log = Append(@, [ev |-> "progress",
                                      loaded |-> l2.loadedCount,
                                      total |-> total])]

----------------------------------------------------------------------------
(* core/MeshGenerator.ts and utils/interpolation.ts, as far as the engine  *)
(* depends on them: which inputs a mesh was built from.                    *)

\* DEFAULT_TERRAIN_CONFIG.gridResolution
GridResolution == 100

\* smoothRes of generateSmoothedGrid, resolution of createMesh
UpsampledResolution(baseRes, factor) == (baseRes - 1) * factor + 1

\* generateSmoothedGrid that returns the ground grid at the base resolution
generateSmoothedGrid_base(factor) ==
    [ factor |-> factor, resolution |-> GridResolution,
      points |-> GridResolution * GridResolution ]

\* generateSmoothedGrid: the upsampled ground grid, named by its factor,
\* with its resolution and the number of its points and elevations
generateSmoothedGrid(factor) ==
    LET smoothRes == UpsampledResolution(GridResolution, factor)
    IN  [ factor |-> factor, resolution |-> smoothRes,
          points |-> smoothRes * smoothRes ]

\* createMesh: <<>> for null, else <<geometry>>. The geometry is named by
\* what it was computed from: the frame, and on the upsampling branch the
\* smoothing factor, the upsampled ground grid and the flatten passes. It
\* has the resolution its triangles are indexed with, the number of cells
\* of the flow grid it reads (flowData.flowHeights or the array upsampleGrid
\* returns) and the number of vertices (gridPoints.length).
createMesh(time, flowData, smoothedGridData, smoothingFactor, flattenPasses) ==
    IF flowData.nonZeroCount = 0 THEN <<>>
    ELSE IF smoothingFactor > 1 /\ smoothedGridData # <<>>
         THEN LET resolution == UpsampledResolution(GridResolution, smoothingFactor)
              IN  << [time |-> time, upsampled |-> TRUE,
                      factor |-> smoothingFactor,
                      ground |-> smoothedGridData[1].factor,
                      passes |-> flattenPasses,
                      resolution |-> resolution,
                      flowCells |-> resolution * resolution,
                      vertices |-> smoothedGridData[1].points] >>
         ELSE << [time |-> time, upsampled |-> FALSE,
                  factor |-> 1, ground |-> 1, passes |-> 0,
                  resolution |-> GridResolution,
                  flowCells |-> GridResolution * GridResolution,
                  vertices |-> GridResolution * GridResolution] >>

----------------------------------------------------------------------------
(* core/AvalancheSimulation.ts *)

\* the object the constructor returns
NewSimulation(config) ==
    [ config |-> config,
      view |-> FALSE,
      state |-> [ currentFrameIndex |-> 0,
                  isPlaying |-> FALSE,
                  playbackSpeed |-> DefaultPlaybackSpeed,
                  smoothingFactor |-> DefaultSmoothingFactor,
                  flattenPasses |-> DefaultFlattenPasses ],
      animationInterval |-> NoTimer,
      timeSteps |-> generateTimeSteps(config),
      frameCache |-> EmptyMap,
      meshCache |-> EmptyMap,
      meshExtent |-> FALSE,
      baseGridData |-> FALSE,
      smoothedGridData |-> <<>>,
      currentFrameTime |-> NoTime,
      eventHandlers |-> [t \in EventTypes |-> <<>>] ]

\* the world a method runs in
World ==
    [ sim |-> sim, timers |-> timers, graphics |-> graphics,
      viewGraphics |-> viewGraphics, emitted |-> <<>>, quiet |-> quiet ]

\* graphic.visible = v
SetVisible(w, id, v) == [w EXCEPT !.graphics[id].visible = v]

RECURSIVE play(_), pause(_), deliver(_, _, _)

\* one handler called with the event
handle(w, kind, event) ==
    IF kind = "pauseOnPlay" /\ event.type = "playStateChange" /\ event.isPlaying
    THEN pause(w)
    ELSE IF kind = "playOnPause" /\ event.type = "playStateChange"
                                 /\ ~event.isPlaying
         THEN play(w)
         ELSE w

\* handlers.forEach((handler) => handler(event))
deliver(w, handlers, event) ==
    IF handlers = <<>> THEN w
    ELSE deliver(handle(w, Head(handlers), event), Tail(handlers), event)

emit(w, event) ==
    deliver([w EXCEPT !.emitted = Append(@, event)],
            w.sim.eventHandlers[event.type], event)

\* displayFrame that lets the previous mesh stay visible
displayFrame_noHide(w, frameIndex) ==
    IF ~w.sim.view THEN w
    ELSE IF ~HasIndex(w.sim.timeSteps, frameIndex) THEN w
    ELSE
    LET time == At(w.sim.timeSteps, frameIndex)
        w2 == IF time \in DOMAIN w.sim.meshCache
              THEN SetVisible(w, w.sim.meshCache[time], TRUE)
              ELSE w
        w3 == [w2 EXCEPT !.sim.currentFrameTime = time,
                         !.sim.state.currentFrameIndex = frameIndex]
    IN  emit(w3, [type |-> "frameChange", frameIndex |-> frameIndex,
                  totalFrames |-> Len(w.sim.timeSteps), time |-> time])

\* displayFrame that tells nobody when the frame has no mesh to show
displayFrame_quietWithoutMesh(w, frameIndex) ==
    IF ~w.sim.view THEN w
    ELSE IF ~HasIndex(w.sim.timeSteps, frameIndex) THEN w
    ELSE
    LET time == At(w.sim.timeSteps, frameIndex)
        w1 == IF /\ w.sim.currentFrameTime # NoTime
                 /\ w.sim.currentFrameTime \in DOMAIN w.sim.meshCache
              THEN SetVisible(w, w.sim.meshCache[w.sim.currentFrameTime], FALSE)
              ELSE w
        w2 == IF time \in DOMAIN w1.sim.meshCache
              THEN SetVisible(w1, w1.sim.meshCache[time], TRUE)
              ELSE w1
        w3 == [w2 EXCEPT !.sim.currentFrameTime = time,
                         !.sim.state.currentFrameIndex = frameIndex]
    IN  IF time \notin DOMAIN w.sim.meshCache THEN w3
        ELSE emit(w3, [type |-> "frameChange", frameIndex |-> frameIndex,
                       totalFrames |-> Len(w.sim.timeSteps), time |-> time])

\* displayFrame that clamps an index outside the list instead of returning
displayFrame_clamped(w, frameIndex) ==
    LET n == Len(w.sim.timeSteps)
        i == IF frameIndex < 0 THEN 0
             ELSE IF frameIndex >= n THEN n - 1 ELSE frameIndex
        time == At(w.sim.timeSteps, i)
        w1 == IF w.sim.currentFrameTime \in DOMAIN w.sim.meshCache
              THEN SetVisible(w, w.sim.meshCache[w.sim.currentFrameTime], FALSE)
              ELSE w
        w2 == IF time \in DOMAIN w1.sim.meshCache
              THEN SetVisible(w1, w1.sim.meshCache[time], TRUE)
              ELSE w1
        w3 == [w2 EXCEPT !.sim.currentFrameTime = time,
                         !.sim.state.currentFrameIndex = i]
    IN  IF ~w.sim.view \/ n = 0 THEN w
        ELSE emit(w3, [type |-> "frameChange", frameIndex |-> i,
                       totalFrames |-> n, time |-> time])

displayFrame(w, frameIndex) ==
    IF ~w.sim.view THEN w
    ELSE IF ~HasIndex(w.sim.timeSteps, frameIndex) THEN w
    ELSE
    LET time == At(w.sim.timeSteps, frameIndex)
        \* hide previous frame
        w1 == IF /\ w.sim.currentFrameTime # NoTime
                 /\ w.sim.currentFrameTime \in DOMAIN w.sim.meshCache
              THEN SetVisible(w, w.sim.meshCache[w.sim.currentFrameTime], FALSE)
              ELSE w
        \* show new frame
        w2 == IF time \in DOMAIN w1.sim.meshCache
              THEN SetVisible(w1, w1.sim.meshCache[time], TRUE)
              ELSE w1
        w3 == [w2 EXCEPT !.sim.currentFrameTime = time,
                         !.sim.state.currentFrameIndex = frameIndex]
    IN  emit(w3, [type |-> "frameChange", frameIndex |-> frameIndex,
                  totalFrames |-> Len(w.sim.timeSteps), time |-> time])

\* setInterval(callback, period): a new live timer; returns the world and
\* leaves the handle in animationInterval
startInterval(w) ==
    LET id == Fresh(DOMAIN w.timers \cup {w.sim.animationInterval})
    IN  [w EXCEPT !.timers = MapSet(@, id, w.sim.state.playbackSpeed),
                  !.sim.animationInterval = id]

\* play without the `if (this.state.isPlaying) return`
play_noGuard(w) ==
    LET w0 == [w EXCEPT !.quiet = FALSE]
        w1 == [w0 EXCEPT !.sim.state.isPlaying = TRUE]
        w2 == emit(w1, [type |-> "playStateChange", isPlaying |-> TRUE])
    IN  startInterval(w2)

play(w) ==
    LET w0 == [w EXCEPT !.quiet = FALSE]
    IN  IF w.sim.state.isPlaying THEN w0
        ELSE LET w1 == [w0 EXCEPT !.sim.state.isPlaying = TRUE]
                 w2 == emit(w1, [type |-> "playStateChange", isPlaying |-> TRUE])
             IN  startInterval(w2)

\* pause that forgets the handle without clearInterval
pause_keepsTimer(w) ==
    LET w1 == [w EXCEPT !.sim.state.isPlaying = FALSE]
        w2 == emit(w1, [type |-> "playStateChange", isPlaying |-> FALSE])
    IN  [w2 EXCEPT !.sim.animationInterval = NoTimer, !.quiet = TRUE]

pause(w) ==
    LET w1 == [w EXCEPT !.sim.state.isPlaying = FALSE]
        w2 == emit(w1, [type |-> "playStateChange", isPlaying |-> FALSE])
        handleId == w2.sim.animationInterval
        w3 == IF handleId # NoTimer
              THEN [w2 EXCEPT
                      !.timers = [t \in DOMAIN @ \ {handleId} |-> @[t]],
                      !.sim.animationInterval = NoTimer]
              ELSE w2
    IN  [w3 EXCEPT !.quiet = TRUE]

\* interval callback that does not wrap to 0 after the last frame
intervalCallback_noWrap(w) ==
    displayFrame(w, w.sim.state.currentFrameIndex + 1)

\* the interval callback of play()
intervalCallback(w) ==
    LET next == w.sim.state.currentFrameIndex + 1
        nextIndex == IF next >= Len(w.sim.timeSteps) THEN 0 ELSE next
    IN  displayFrame(w, nextIndex)

togglePlay(w) == IF w.sim.state.isPlaying THEN pause(w) ELSE play(w)

\* reset that sets the index and does not display the frame
reset_indexOnly(w) == [pause(w) EXCEPT !.sim.state.currentFrameIndex = 0]

reset(w) == displayFrame(pause(w), 0)

\* setSpeed that starts the new timer without cancelling the old one
setSpeed_noPause(w, speed) ==
    LET w1 == [w EXCEPT !.sim.state.playbackSpeed = speed]
    IN  IF w1.sim.state.isPlaying THEN startInterval(w1) ELSE w1

\* setSpeed that leaves a running timer at its old period
setSpeed_noRestart(w, speed) ==
    [w EXCEPT !.sim.state.playbackSpeed = speed]

setSpeed(w, speed) ==
    LET w1 == [w EXCEPT !.sim.state.playbackSpeed = speed]
    IN  IF w1.sim.state.isPlaying THEN play(pause(w1)) ELSE w1

\* updateSmoothedGrid that generates a grid only when it has none
updateSmoothedGrid_keep(w) ==
    IF ~w.sim.baseGridData THEN w
    ELSE IF w.sim.state.smoothingFactor > 1
         THEN IF w.sim.smoothedGridData # <<>> THEN w
              ELSE [w EXCEPT !.sim.smoothedGridData =
                          <<generateSmoothedGrid(w.sim.state.smoothingFactor)>>]
         ELSE [w EXCEPT !.sim.smoothedGridData = <<>>]

updateSmoothedGrid(w) ==
    IF ~w.sim.baseGridData THEN w
    ELSE IF w.sim.state.smoothingFactor > 1
         THEN [w EXCEPT !.sim.smoothedGridData =
                          <<generateSmoothedGrid(w.sim.state.smoothingFactor)>>]
         ELSE [w EXCEPT !.sim.smoothedGridData = <<>>]

\* a Graphic that is made visible
NewGraphic_visible(w, mesh) ==
    [ geometry |-> mesh, visible |-> TRUE,
      smoothingFactor |-> w.sim.state.smoothingFactor,
      flattenPasses |-> w.sim.state.flattenPasses ]

\* new Graphic({geometry: mesh, ..., visible: false}), with the parameters
\* that were current when it was built
NewGraphic(w, mesh) ==
    [ geometry |-> mesh, visible |-> FALSE,
      smoothingFactor |-> w.sim.state.smoothingFactor,
      flattenPasses |-> w.sim.state.flattenPasses ]

\* the body of `for (const time of this.timeSteps)`, from the k-th step on
RECURSIVE buildMeshes(_, _)
buildMeshes(w, k) ==
    IF k > Len(w.sim.timeSteps) THEN w
    ELSE
    LET time == w.sim.timeSteps[k]
        mesh == createMesh(time, w.sim.frameCache[time], w.sim.smoothedGridData,
                           w.sim.state.smoothingFactor, w.sim.state.flattenPasses)
        id == Fresh(DOMAIN w.graphics)
    IN  IF time \notin DOMAIN w.sim.frameCache THEN buildMeshes(w, k + 1)
        ELSE IF mesh = <<>> THEN buildMeshes(w, k + 1)
        ELSE buildMeshes(
               [w EXCEPT !.graphics = MapSet(@, id, NewGraphic(w, mesh[1])),
                         !.sim.meshCache = MapSet(@, time, id),
                         !.viewGraphics = @ \cup {id}],
               k + 1)

\* the graphics something still refers to: the rest is garbage
Reachable(w) == w.viewGraphics \cup Range(w.sim.meshCache)

Collect(w) == [w EXCEPT !.graphics = [id \in Reachable(w) |-> @[id]]]

\* rebuildMeshCache that builds only the meshes the cache does not have
rebuildMeshCache_keepOld(w) ==
    IF ~w.sim.view \/ ~w.sim.baseGridData \/ ~w.sim.meshExtent THEN w
    ELSE IF w.sim.meshCache # EmptyMap THEN w
    ELSE buildMeshes(w, 1)

rebuildMeshCache(w) ==
    IF ~w.sim.view \/ ~w.sim.baseGridData \/ ~w.sim.meshExtent THEN w
    ELSE
    LET \* remove existing meshes from view
        w1 == [w EXCEPT !.viewGraphics = @ \ Range(w.sim.meshCache),
                        !.sim.meshCache = EmptyMap]
    IN  buildMeshes(Collect(w1), 1)

\* setSmoothing that rebuilds the meshes before it stores the new factor
setSmoothing_rebuildFirst(w, factor) ==
    LET w1 == rebuildMeshCache(updateSmoothedGrid(w))
        w2 == [w1 EXCEPT !.sim.state.smoothingFactor = factor]
    IN  displayFrame(w2, w2.sim.state.currentFrameIndex)

setSmoothing(w, factor) ==
    LET w1 == [w EXCEPT !.sim.state.smoothingFactor = factor]
        w2 == rebuildMeshCache(updateSmoothedGrid(w1))
    IN  displayFrame(w2, w2.sim.state.currentFrameIndex)

setFlattenPasses(w, passes) ==
    LET w1 == [w EXCEPT !.sim.state.flattenPasses = passes]
        w2 == rebuildMeshCache(w1)
    IN  displayFrame(w2, w2.sim.state.currentFrameIndex)

\* findIndex with (t) => t > time
findIndex_after(timeSteps, time) ==
    IF \E k \in 1 .. Len(timeSteps) : timeSteps[k] > time
    THEN (CHOOSE k \in 1 .. Len(timeSteps) :
             /\ timeSteps[k] > time
             /\ \A j \in 1 .. (k - 1) : ~(timeSteps[j] > time)) - 1
    ELSE -1

\* timeSteps.findIndex((t) => t >= time): -1 when there is none
findIndex(timeSteps, time) ==
    IF \E k \in 1 .. Len(timeSteps) : timeSteps[k] >= time
    THEN (CHOOSE k \in 1 .. Len(timeSteps) :
             /\ timeSteps[k] >= time
             /\ \A j \in 1 .. (k - 1) : ~(timeSteps[j] >= time)) - 1
    ELSE -1

seekToTime(w, time) ==
    LET frameIndex == findIndex(w.sim.timeSteps, time)
    IN  IF frameIndex # -1 THEN displayFrame(w, frameIndex) ELSE w

on(w, eventType, handler) ==
    [w EXCEPT !.sim.eventHandlers[eventType] = Append(@, handler)]

hide(w) ==
    [w EXCEPT !.graphics =
        [id \in DOMAIN @ |->
            IF id \in Range(w.sim.meshCache)
            THEN [@[id] EXCEPT !.visible = FALSE] ELSE @[id]]]

\* show that makes every cached mesh visible
show_all(w) ==
    [w EXCEPT !.graphics =
        [id \in DOMAIN @ |->
            IF id \in Range(w.sim.meshCache)
            THEN [@[id] EXCEPT !.visible = TRUE] ELSE @[id]]]

show(w) ==
    IF /\ w.sim.currentFrameTime # NoTime
       /\ w.sim.currentFrameTime \in DOMAIN w.sim.meshCache
    THEN SetVisible(w, w.sim.meshCache[w.sim.currentFrameTime], TRUE)
    ELSE w

\* dispose that does not stop the playback first
dispose_noPause(w) ==
    LET w2 == IF w.sim.view
              THEN [w EXCEPT !.viewGraphics = @ \ Range(w.sim.meshCache)]
              ELSE w
    IN  [w2 EXCEPT !.sim.frameCache = EmptyMap,
                   !.sim.meshCache = EmptyMap,
                   !.sim.eventHandlers = [t \in EventTypes |-> <<>>],
                   !.sim.view = FALSE,
                   !.sim.currentFrameTime = NoTime,
                   !.sim.baseGridData = FALSE,
                   !.sim.smoothedGridData = <<>>,
                   !.sim.meshExtent = FALSE]

dispose(w) ==
    LET w1 == pause(w)
        w2 == IF w1.sim.view
              THEN [w1 EXCEPT !.viewGraphics = @ \ Range(w1.sim.meshCache)]
              ELSE w1
    IN  [w2 EXCEPT !.sim.frameCache = EmptyMap,
                   !.sim.meshCache = EmptyMap,
                   !.sim.eventHandlers = [t \in EventTypes |-> <<>>],
                   !.sim.view = FALSE,
                   !.sim.currentFrameTime = NoTime,
                   !.sim.baseGridData = FALSE,
                   !.sim.smoothedGridData = <<>>,
                   !.sim.meshExtent = FALSE]

\* handlers.splice(handlers.indexOf(handler), 1)
RemoveFirst(handlers, handler) ==
    IF \E k \in 1 .. Len(handlers) : handlers[k] = handler
    THEN LET k == CHOOSE k \in 1 .. Len(handlers) :
                     /\ handlers[k] = handler
                     /\ \A j \in 1 .. (k - 1) : handlers[j] # handler
         IN  SubSeq(handlers, 1, k - 1) \o SubSeq(handlers, k + 1, Len(handlers))
    ELSE handlers

off(w, eventType, handler) ==
    [w EXCEPT !.sim.eventHandlers[eventType] = RemoveFirst(@, handler)]

\* initialize(), from the return of preloadAllFrames to the next await
\* (the elevation query), or to the throw
afterPreload(w, cache) ==
    LET w1 == [w EXCEPT !.sim.frameCache = cache]
    IN  IF cache = EmptyMap THEN w1
        ELSE [w1 EXCEPT !.sim.meshExtent = TRUE]

\* initialize(), from the return of the elevation query to its end
afterElevation(w) ==
    LET w1 == [w EXCEPT !.sim.baseGridData = TRUE]
        w2 == rebuildMeshCache(updateSmoothedGrid(w1))
    IN  emit(w2, [type |-> "ready"])

----------------------------------------------------------------------------
(* SimulationManager *)

\* null of `activeSimulationId: string | null`
NoId == ""

\* this.configs after loadConfigs: the simulations of avalanches.json, one
\* longer than the other
ManagerConfigs ==
    [ a |-> [timeRange |-> <<0, 2 * (MaxSteps - 1)>>, timeInterval |-> 2],
      b |-> [timeRange |-> <<0, 0>>, timeInterval |-> 2] ]

SimulationIds == DOMAIN ManagerConfigs

\* an id that this.configs.find does not find
UnknownId == "x"

\* arguments of seekAllToTime: before the first step, between the first
\* two steps of the longer simulation, its last step, and past it
ManagerSeekTimes == {-1, 1, 2 * (MaxSteps - 1), 2 * MaxSteps - 1}

\* the object the constructor returns; simulations maps an id to the key
\* of its engine in `engines`
NewManager ==
    [ view |-> FALSE,
      simulations |-> EmptyMap,
      activeSimulationId |-> NoId,
      playAllMode |-> FALSE ]

\* new AvalancheSimulation(config), with no timer and no graphic yet
NewEngine(config) ==
    [ sim |-> NewSimulation(config), timers |-> EmptyMap, graphics |-> EmptyMap,
      viewGraphics |-> {}, emitted |-> <<>>, quiet |-> FALSE ]

\* what preloadAllFrames can return for a config: the frames of any of its
\* time steps
PossibleCaches(config) ==
    { [t \in S |-> [nonZeroCount |-> c]] :
        S \in SUBSET Range(generateTimeSteps(config)), c \in NonZeroCounts \ {0} }

\* loadSimulation's new engine with its initialize(view) at the first await
initializing(config) == [NewEngine(config) EXCEPT !.sim.view = TRUE]

\* initialize(view) run to its end on that engine with a cache that has a
\* frame; the engine is known to the initializing call only, so nothing
\* else runs on it meanwhile
initialized(w, cache) == Collect(afterElevation(afterPreload(w, cache)))

\* the world a manager method runs in: each engine's `emitted` collects
\* what the engine emits during the method
ManagerWorld ==
    [ manager |-> manager,
      engines |-> [k \in DOMAIN engines |-> [engines[k] EXCEPT !.emitted = <<>>]],
      emitted |-> <<>> ]

NoEngine == [id |-> NoId, n |-> 0]

\* getActiveSimulation(): the key of the engine, NoEngine for null
getActiveSimulation(m) ==
    IF m.manager.activeSimulationId = NoId THEN NoEngine
    ELSE IF m.manager.activeSimulationId \in DOMAIN m.manager.simulations
         THEN m.manager.simulations[m.manager.activeSimulationId]
         ELSE NoEngine

\* what a caller sees of the active engine: whether it plays and which of
\* its meshes are visible
NoSnapshot == [isPlaying |-> FALSE, visible |-> {}]

Snapshot(m) ==
    LET activeSim == getActiveSimulation(m)
    IN  IF activeSim = NoEngine THEN NoSnapshot
        ELSE [isPlaying |-> m.engines[activeSim].sim.state.isPlaying,
              visible |-> { t \in DOMAIN m.engines[activeSim].sim.meshCache :
                              m.engines[activeSim].graphics[
                                  m.engines[activeSim].sim.meshCache[t]].visible }]

\* the manager's emit; its subscribers (main.ts) only look at the event
managerEmit(m, event) == [m EXCEPT !.emitted = Append(@, event)]

\* switchToAvalanche that hides the current engine without pausing it
switchBegin_hideOnly(m) ==
    LET currentSim == getActiveSimulation(m)
    IN  IF currentSim # NoEngine
        THEN [m EXCEPT !.engines[currentSim] = hide(@)]
        ELSE m

\* switchToAvalanche, up to `await this.loadSimulation(id)`
switchBegin(m) ==
    LET currentSim == getActiveSimulation(m)
    IN  IF currentSim # NoEngine
        THEN [m EXCEPT !.engines[currentSim] = hide(pause(@))]
        ELSE m

\* the key of a new engine object for the id: the id and a number no
\* other engine made for that id has
NewKey(m, id) ==
    [id |-> id, n |-> Fresh({ k.n : k \in { e \in DOMAIN m.engines : e.id = id } })]

\* loadSimulation that registers the engine before it awaits initialize
loadFailed_registered(m, id, w) ==
    [m EXCEPT !.engines = MapSet(@, NewKey(m, id), w),
              !.manager.simulations = MapSet(@, id, NewKey(m, id))]

\* loadSimulation when `await simulation.initialize(...)` throws: the
\* simulations.set after it is not reached, and switchToAvalanche ends too
loadFailed(m, id, w) == m

\* loadSimulation, after `await simulation.initialize(...)`: the engine
\* w is registered under the id
register(m, id, w) ==
    LET key == NewKey(m, id)
    IN  [m EXCEPT !.engines = MapSet(@, key, w),
                  !.manager.simulations = MapSet(@, id, key)]

\* switchToAvalanche, from the return of loadSimulation with the engine
\* to `await this.zoomToExtent(extent)`
switchShow(m, id, key) ==
    [m EXCEPT !.engines[key] = displayFrame(show(@), 0),
              !.manager.activeSimulationId = id]

\* switchToAvalanche, after the zoom
switchEnd(m, id) ==
    managerEmit(m, [type |-> "avalancheChange", avalancheId |-> id])

\* this.simulations.forEach((sim) => ...): the engines of the map
Registered(m) == Range(m.manager.simulations)

\* playAll, up to `await this.zoomToExtent(combinedExtent)`
playAllBegin(m) ==
    [m EXCEPT !.manager.playAllMode = TRUE,
              !.engines = [k \in DOMAIN @ |->
                              IF k \in Registered(m)
                              THEN show(displayFrame(@[k], 0)) ELSE @[k]]]

\* playAll that starts the active engine only
playAllEnd_activeOnly(m) ==
    [m EXCEPT !.engines = [k \in DOMAIN @ |->
                              IF k = getActiveSimulation(m) THEN play(@[k]) ELSE @[k]]]

\* playAll, after the zoom (or at once when no engine has an extent)
playAllEnd(m) ==
    [m EXCEPT !.engines = [k \in DOMAIN @ |->
                              IF k \in Registered(m) THEN play(@[k]) ELSE @[k]]]

stopAll(m) ==
    LET m1 == [m EXCEPT !.manager.playAllMode = FALSE,
                        !.engines = [k \in DOMAIN @ |->
                                        IF k \in Registered(m)
                                        THEN hide(pause(@[k])) ELSE @[k]]]
        activeSim == getActiveSimulation(m1)
    IN  IF activeSim # NoEngine
        THEN [m1 EXCEPT !.engines[activeSim] = show(@)]
        ELSE m1

seekAllToTime(m, time) ==
    [m EXCEPT !.engines = [k \in DOMAIN @ |->
                              IF k \in Registered(m)
                              THEN seekToTime(@[k], time) ELSE @[k]]]

resetAll(m) ==
    [m EXCEPT !.engines = [k \in DOMAIN @ |->
                              IF k \in Registered(m) THEN reset(@[k]) ELSE @[k]]]

setSmoothingAll(m, factor) ==
    [m EXCEPT !.engines = [k \in DOMAIN @ |->
                              IF k \in Registered(m)
                              THEN Collect(setSmoothing(@[k], factor)) ELSE @[k]]]

setFlattenPassesAll(m, passes) ==
    [m EXCEPT !.engines = [k \in DOMAIN @ |->
                              IF k \in Registered(m)
                              THEN Collect(setFlattenPasses(@[k], passes))
                              ELSE @[k]]]

----------------------------------------------------------------------------
(* The state machine *)

\* the meshes of the cache, time by time (the geometry, not the Graphic
\* object that carries it)
MeshSet(w) ==
    [t \in DOMAIN w.sim.meshCache |-> w.graphics[w.sim.meshCache[t]].geometry]

\* no initial build to compare with: the engine is not initialized, or
\* calls other than those two were made since
NoBuild ==
    [meshes |-> EmptyMap, factor |-> DefaultSmoothingFactor,
     fresh |-> FALSE, since |-> <<>>]

\* initialBuild after the call op(arg) that left the world w
Remember(w, op, arg) ==
    IF op = "ready"
    THEN [meshes |-> MeshSet(w), factor |-> w.sim.state.smoothingFactor,
          fresh |-> TRUE, since |-> <<>>]
    ELSE IF /\ op = "setSmoothing" /\ initialBuild.fresh
            /\ \/ initialBuild.since = <<>> /\ arg = 3
               \/ initialBuild.since = <<3>>
         THEN [initialBuild EXCEPT !.since = Append(@, arg)]
         ELSE NoBuild

\* the method has returned: its effects become the next state
Commit(w, op, arg) ==
    /\ initialBuild' = Remember(w, op, arg)
    /\ UNCHANGED <<managerVars, gridVars>>
    /\ disposed' = IF op = "dispose" THEN TRUE
                   ELSE IF op = "initialize" THEN FALSE ELSE disposed
    /\ sim' = w.sim
    /\ timers' = w.timers
    /\ graphics' = Collect(w).graphics
    /\ viewGraphics' = w.viewGraphics
    /\ emitted' = w.emitted
    /\ quiet' = w.quiet
    /\ lastOp' = [op |-> op, arg |-> arg,
                  from |-> IF op = "displayFrame"
                           THEN sim.state.currentFrameIndex ELSE 0,
                  was |-> sim.state.isPlaying]

TimerRoom == Cardinality(DOMAIN timers) < MaxTimers

\* no grid or colour function is being called
NoCall == [fn |-> "none", grid |-> <<>>, res |-> 0, dstRes |-> 0,
           passes |-> 0, x |-> <<0, 1>>, y |-> <<0, 1>>, value |-> 0,
           stops |-> <<>>, type |-> "", width |-> 0, height |-> 0,
           smoothingFactor |-> 1, done |-> TRUE, out |-> <<>>]

\* new AvalancheSimulation(config), for one of the configs
InitEngine(configs) ==
    /\ \E config \in configs : sim = NewSimulation(config)
    /\ timers = EmptyMap
    /\ graphics = EmptyMap
    /\ viewGraphics = {}
    /\ emitted = <<>>
    /\ quiet = FALSE
    /\ lastOp = [op |-> "new", arg |-> 0, from |-> 0, was |-> FALSE]
    /\ initPc = "idle"
    /\ loadCache = EmptyMap
    /\ loadedCount = 0
    /\ loaderLog = <<>>
    /\ initialBuild = NoBuild
    /\ disposed = FALSE
    /\ manager = NewManager
    /\ engines = EmptyMap
    /\ tasks = <<>>
    /\ managerOp = [op |-> "new", id |-> NoId, time |-> 0, pc |-> "done",
                    alone |-> TRUE, prev |-> NoId, before |-> NoSnapshot,
                    emitted |-> <<>>, simulation |-> <<>>]

InitWith(configs) == InitEngine(configs) /\ calc = NoCall

Init == InitWith(Configs)

\* the locals of preloadAllFrames
Loader == [frameCache |-> loadCache, loadedCount |-> loadedCount, log |-> loaderLog]

\* initialize(view) is called and runs to its first await
Initialize ==
    /\ initPc = "idle"
    /\ LET w == [World EXCEPT !.sim.view = TRUE]
       IN  IF Len(sim.timeSteps) = 0
           THEN /\ Commit(afterPreload(w, EmptyMap), "initialize", 0)
                /\ initPc' = "failed"
           ELSE /\ Commit(w, "initialize", 0)
                /\ initPc' = "preload"
    /\ loaderLog' = beginFetch(Loader, sim.timeSteps).log
    /\ UNCHANGED <<loadCache, loadedCount>>

\* preloadAllFrames: the await of one loadTiffFrame ends, by a decoded
\* frame or by an error; after the last one initialize goes on
LoadFrame ==
    /\ initPc = "preload"
    /\ loadedCount < Len(sim.timeSteps)
    /\ \E outcome \in {"ok", "error"}, count \in NonZeroCounts :
         LET time == sim.timeSteps[loadedCount + 1]
             l == beginFetch(endFetch(Loader, Len(sim.timeSteps), time, outcome,
                                      [nonZeroCount |-> count]),
                             sim.timeSteps)
         IN  /\ outcome = "error" => count = 0
             /\ loadCache' = l.frameCache
             /\ loadedCount' = l.loadedCount
             /\ loaderLog' = l.log
             /\ IF l.loadedCount < Len(sim.timeSteps)
                THEN /\ Commit(World, "loadFrame", time)
                     /\ initPc' = "preload"
                ELSE /\ Commit(afterPreload(World, l.frameCache), "loadFrame", time)
                     /\ initPc' = IF l.frameCache = EmptyMap THEN "failed"
                                  ELSE "elevation"

\* the elevation query returns and initialize runs to its end
ElevationReturn ==
    /\ initPc = "elevation"
    /\ Commit(afterElevation(World), "ready", 0)
    /\ initPc' = "done"
    /\ UNCHANGED <<loadCache, loadedCount, loaderLog>>

\* a method is called and returns
Call(w, op, arg) ==
    /\ Commit(w, op, arg)
    /\ UNCHANGED <<initPc, loadCache, loadedCount, loaderLog>>

\* While the frames load, the loading steps touch the loader's locals only
\* and every method but dispose leaves the same engine whether it runs
\* before or after them: those calls are taken once the last frame is in.
Loaded == initPc # "preload"

DisplayFrame == Loaded /\ \E i \in FrameIndices : Call(displayFrame(World, i), "displayFrame", i)

Play == Loaded /\ TimerRoom /\ Call(play(World), "play", 0)

Pause == Loaded /\ Call(pause(World), "pause", 0)

TogglePlay == Loaded /\ TimerRoom /\ Call(togglePlay(World), "togglePlay", 0)

Reset == Loaded /\ Call(reset(World), "reset", 0)

SetSpeed == Loaded /\ TimerRoom /\ \E ms \in Speeds : Call(setSpeed(World, ms), "setSpeed", ms)

SetSmoothing ==
    Loaded /\ \E factor \in SmoothingFactors :
        Call(setSmoothing(World, factor), "setSmoothing", factor)

SetFlattenPasses ==
    Loaded /\ \E passes \in FlattenPassOptions :
        Call(setFlattenPasses(World, passes), "setFlattenPasses", passes)

SeekToTime == Loaded /\ \E t \in SeekTimes : Call(seekToTime(World, t), "seekToTime", t)

Hide == Loaded /\ Call(hide(World), "hide", 0)

Show == Loaded /\ Call(show(World), "show", 0)

Dispose == Call(dispose(World), "dispose", 0)

\* a timer fires: the interval callback runs
Tick == Loaded /\ \E id \in DOMAIN timers : Call(intervalCallback(World), "tick", 0)

\* a handler that only looks at the event is subscribed or unsubscribed
On ==
    \E t \in {"frameChange", "playStateChange"} :
        /\ Loaded
        /\ sim.eventHandlers[t] = <<>>
        /\ \E kind \in ObserverKinds : Call(on(World, t, kind), "on", 0)

Off ==
    \E t \in EventTypes :
        /\ Loaded
        /\ sim.eventHandlers[t] # <<>>
        /\ Call(off(World, t, Head(sim.eventHandlers[t])), "off", 0)

\* a handler that calls back into the engine is subscribed; two of them
\* would call each other without end
OnReactive ==
    \E kind \in ReactiveKinds :
        /\ Loaded
        /\ sim.eventHandlers["playStateChange"] = <<>>
        /\ Call(on(World, "playStateChange", kind), "on", 0)

Next ==
    \/ Initialize \/ LoadFrame \/ ElevationReturn
    \/ DisplayFrame \/ Play \/ Pause \/ TogglePlay \/ Reset \/ SetSpeed
    \/ SetSmoothing \/ SetFlattenPasses \/ SeekToTime \/ Hide \/ Show
    \/ Dispose \/ Tick

Spec == Init /\ [][Next]_vars

\* initialize(view) is called again on an engine whose last initialize()
\* has returned or thrown: preloadAllFrames starts with its own new locals
InitializeAgain ==
    /\ initPc \in {"done", "failed"}
    /\ Len(sim.timeSteps) > 0
    /\ Commit([World EXCEPT !.sim.view = TRUE], "initialize", 0)
    /\ initPc' = "preload"
    /\ loadCache' = EmptyMap
    /\ loadedCount' = 0
    /\ loaderLog' = beginFetch([frameCache |-> EmptyMap, loadedCount |-> 0,
                                log |-> <<>>], sim.timeSteps).log

\* the engine under initialize, called any number of times, the two
\* setters and dispose
NextLifecycle ==
    \/ Initialize \/ InitializeAgain \/ LoadFrame \/ ElevationReturn
    \/ SetSmoothing \/ SetFlattenPasses \/ Dispose

SpecLifecycle == Init /\ [][NextLifecycle]_vars

\* the same engine, with subscribers that call play and pause from inside
\* the playStateChange notification
NextReentrant ==
    \/ Initialize \/ LoadFrame \/ ElevationReturn
    \/ Play \/ Pause \/ TogglePlay \/ SetSpeed \/ Tick
    \/ On \/ OnReactive \/ Off

SpecReentrant == Init /\ [][NextReentrant]_vars

----------------------------------------------------------------------------
(* The manager's state machine *)

\* an engine that is in no map, has no timer and no graphic on the view is
\* garbage
Live(m) ==
    { k \in DOMAIN m.engines :
        \/ k \in Registered(m)
        \/ m.engines[k].timers # EmptyMap
        \/ m.engines[k].viewGraphics # {} }

\* a step of a manager call ends, at an await or at its return: t is the
\* call, with pc = "done" | "failed" when it has returned
ManagerCommit(m, t) ==
    /\ manager' = m.manager
    /\ engines' = [k \in Live(m) |-> m.engines[k]]
    /\ managerOp' = t
    /\ UNCHANGED <<engineVars, gridVars>>

\* the suspended calls other than the i-th have had a step of another call
\* run between their steps
Others(i) ==
    [j \in 1 .. Len(tasks) |-> IF j = i THEN tasks[j]
                               ELSE [tasks[j] EXCEPT !.alone = FALSE]]

\* the i-th suspended call goes on to its next await or returns, or
\* throws with the engine w it was initializing
Resume(i, m, pc, w) ==
    LET t == [tasks[i] EXCEPT !.pc = pc, !.emitted = @ \o m.emitted,
                              !.simulation = w]
    IN  /\ ManagerCommit(m, t)
        /\ tasks' = IF pc \in {"done", "failed"}
                    THEN [j \in 1 .. (Len(tasks) - 1) |->
                             IF j < i THEN Others(i)[j] ELSE Others(i)[j + 1]]
                    ELSE [Others(i) EXCEPT ![i] = t]

\* a call is made and runs to its first await or to its return;
\* `simulation` is the local of loadSimulation while the engine it holds is
\* being initialized, <<>> otherwise
Start(m, op, id, time, pc) ==
    LET t == [op |-> op, id |-> id, time |-> time, pc |-> pc,
              alone |-> tasks = <<>>, prev |-> manager.activeSimulationId,
              before |-> Snapshot(ManagerWorld),
              emitted |-> m.emitted,
              simulation |-> IF pc = "loading" THEN initializing(ManagerConfigs[id])
                             ELSE <<>>]
    IN  /\ ManagerCommit(m, t)
        /\ tasks' = IF pc \in {"done", "failed"} THEN Others(0)
                    ELSE Append(Others(0), t)

SetView ==
    /\ ~manager.view
    /\ Start([ManagerWorld EXCEPT !.manager.view = TRUE], "setView", NoId, 0, "done")

\* the caller awaits an async manager call before it makes the next one
\* (main.ts); the calls that do not suspend are made at any time
Awaited == tasks = <<>>

\* switchToAvalanche(id) runs to its first await, or to the throw of
\* loadSimulation for an id that is not in the configs
SwitchToCall(id) ==
    LET m == switchBegin(ManagerWorld)
    IN  IF id \notin SimulationIds
        THEN Start(m, "switchTo", id, 0, "failed")
        ELSE IF id \in DOMAIN manager.simulations
        THEN Start(switchShow(m, id, manager.simulations[id]),
                   "switchTo", id, 0, "zoom")
        ELSE Start(m, "switchTo", id, 0, "loading")

\* switchToAvalanche(id) is called
SwitchTo ==
    \E id \in SimulationIds \cup {UnknownId} :
        /\ manager.view
        /\ Awaited
        /\ SwitchToCall(id)

\* switchToAvalanche(id) is called while earlier calls are suspended: the
\* list handler of main.ts is run for every selection, and nothing makes
\* it wait for the call the selection before it started
SwitchToOverlapping ==
    \E id \in SimulationIds :
        /\ manager.view
        /\ Len(tasks) < MaxTasks
        /\ SwitchToCall(id)

\* the initialize() a switchToAvalanche call waits for ends, by a throw
\* when no frame could be loaded
LoadReturn ==
    \E i \in 1 .. Len(tasks) :
        /\ tasks[i].pc = "loading"
        /\ \E cache \in PossibleCaches(ManagerConfigs[tasks[i].id]) :
             LET id == tasks[i].id
                 w == tasks[i].simulation
             IN  IF cache = EmptyMap
                 THEN Resume(i, loadFailed(ManagerWorld, id, afterPreload(w, cache)),
                             "failed", afterPreload(w, cache))
                 ELSE Resume(i, switchShow(register(ManagerWorld, id,
                                                    initialized(w, cache)),
                                           id, NewKey(ManagerWorld, id)),
                             "zoom", <<>>)

\* the camera animation a call waits for ends
ZoomReturn ==
    \E i \in 1 .. Len(tasks) :
        /\ tasks[i].pc = "zoom"
        /\ IF tasks[i].op = "switchTo"
           THEN Resume(i, switchEnd(ManagerWorld, tasks[i].id), "done", <<>>)
           ELSE Resume(i, playAllEnd(ManagerWorld), "done", <<>>)

\* playAll() is called; with no engine there is no extent to zoom to
PlayAll ==
    /\ manager.view
    /\ Awaited
    /\ LET m == playAllBegin(ManagerWorld)
       IN  IF Registered(m) = {}
           THEN Start(playAllEnd(m), "playAll", NoId, 0, "done")
           ELSE Start(m, "playAll", NoId, 0, "zoom")

StopAll == Start(stopAll(ManagerWorld), "stopAll", NoId, 0, "done")

SeekAllToTime ==
    \E time \in ManagerSeekTimes :
        Start(seekAllToTime(ManagerWorld, time), "seekAllToTime", NoId, time, "done")

\* the play button outside play-all mode: getActiveSimulation().togglePlay()
TogglePlayActive ==
    /\ ~manager.playAllMode
    /\ getActiveSimulation(ManagerWorld) # NoEngine
    /\ Start([ManagerWorld EXCEPT
                 !.engines[getActiveSimulation(ManagerWorld)] = togglePlay(@)],
             "togglePlay", manager.activeSimulationId, 0, "done")

\* a timer of an engine fires; no manager call is involved
EngineTick ==
    \E k \in DOMAIN engines :
        /\ engines[k].timers # EmptyMap
        /\ LET m == [ManagerWorld EXCEPT !.engines[k] = intervalCallback(@)]
           IN  /\ manager' = manager
               /\ engines' = m.engines
               /\ managerOp' = [op |-> "tick", id |-> k.id, time |-> 0,
                                pc |-> "done", alone |-> TRUE, prev |-> NoId,
                                before |-> NoSnapshot,
                                emitted |-> <<>>, simulation |-> <<>>]
               /\ UNCHANGED <<tasks, engineVars, gridVars>>

NextManager ==
    \/ SetView \/ SwitchTo \/ LoadReturn \/ ZoomReturn
    \/ PlayAll \/ StopAll \/ SeekAllToTime \/ TogglePlayActive \/ EngineTick

SpecManager == InitWith({ManagerConfigs.a}) /\ [][NextManager]_vars

ResetAll == Start(resetAll(ManagerWorld), "resetAll", NoId, 0, "done")

SetSmoothingAll ==
    \E factor \in SmoothingFactors :
        Start(setSmoothingAll(ManagerWorld, factor),
              "setSmoothingAll", NoId, factor, "done")

SetFlattenPassesAll ==
    \E passes \in FlattenPassOptions :
        Start(setFlattenPassesAll(ManagerWorld, passes),
              "setFlattenPassesAll", NoId, passes, "done")

\* the manager with the calls that are made on every loaded engine, outside
\* play-all mode
NextBroadcast ==
    \/ SetView \/ SwitchTo \/ LoadReturn \/ ZoomReturn \/ TogglePlayActive
    \/ SeekAllToTime \/ ResetAll \/ SetSmoothingAll \/ SetFlattenPassesAll

SpecBroadcast == InitWith({ManagerConfigs.a}) /\ [][NextBroadcast]_vars

\* the manager with selections made faster than the switches complete
NextOverlapping ==
    SetView \/ SwitchToOverlapping \/ LoadReturn \/ ZoomReturn \/ StopAll

SpecOverlapping == InitWith({ManagerConfigs.a}) /\ [][NextOverlapping]_vars

\* the same engine with the subscribers of main.ts, which only look at the
\* event they are given
NextObserved ==
    \/ Initialize \/ LoadFrame \/ ElevationReturn
    \/ On \/ Off \/ DisplayFrame \/ Play \/ Pause \/ Tick \/ Dispose

SpecObserved == Init /\ [][NextObserved]_vars

\* initialize() alone, on every config of the loader
InitLoader == InitWith(LoaderConfigs)

NextLoader == Initialize \/ LoadFrame \/ ElevationReturn

SpecLoader == InitLoader /\ [][NextLoader]_vars

----------------------------------------------------------------------------
(* The `number` type of the grid and colour functions: IEEE 754 binary64   *)
(* arithmetic. A natural number is the sequence of its binary digits,      *)
(* lowest first and without leading zeros; a number is                     *)
(* (-1)^neg * m * 2^e with m odd, or Zero. Every operation computes the    *)
(* exact result and rounds it to SignificandBits digits, ties to even.     *)
(* The exponent is not bounded: the arguments drawn below stay far from    *)
(* overflow and underflow.                                                 *)

SignificandBits == 53

\* the highest digit 1 of a among its first k digits, 0 if there is none
RECURSIVE TopOne(_, _)
TopOne(a, k) == IF k = 0 \/ a[k] = 1 THEN k ELSE TopOne(a, k - 1)

\* a without its leading zeros
Trim(a) == SubSeq(a, 1, TopOne(a, Len(a)))

\* a with leading zeros up to n digits
Pad(a, n) == a \o [i \in 1 .. (n - Len(a)) |-> 0]

RECURSIVE BitsOf(_)
BitsOf(n) == IF n = 0 THEN <<>> ELSE <<n % 2>> \o BitsOf(n \div 2)

RECURSIVE IntOf(_)
IntOf(a) == IF a = <<>> THEN 0 ELSE Head(a) + 2 * IntOf(Tail(a))

\* a + b + carry for a and b of one length: the digits s and the carry out c
RECURSIVE AddDigits(_, _, _)
AddDigits(a, b, carry) ==
    IF Len(a) = 0 THEN [s |-> <<>>, c |-> carry]
    ELSE IF Len(a) = 1
    THEN [s |-> <<(a[1] + b[1] + carry) % 2>>, c |-> (a[1] + b[1] + carry) \div 2]
    ELSE LET h == Len(a) \div 2
             lo == AddDigits(SubSeq(a, 1, h), SubSeq(b, 1, h), carry)
             hi == AddDigits(SubSeq(a, h + 1, Len(a)), SubSeq(b, h + 1, Len(a)), lo.c)
         IN  [s |-> lo.s \o hi.s, c |-> hi.c]

BAdd(a, b) ==
    LET n == IF Len(a) < Len(b) THEN Len(b) ELSE Len(a)
        r == AddDigits(Pad(a, n), Pad(b, n), 0)
    IN  Trim(r.s \o <<r.c>>)

\* a - b - borrow for a and b of one length: the digits s and the borrow out c
RECURSIVE SubDigits(_, _, _)
SubDigits(a, b, borrow) ==
    IF Len(a) = 0 THEN [s |-> <<>>, c |-> borrow]
    ELSE IF Len(a) = 1
    THEN [s |-> <<(a[1] - b[1] - borrow) % 2>>,
          c |-> IF a[1] - b[1] - borrow < 0 THEN 1 ELSE 0]
    ELSE LET h == Len(a) \div 2
             lo == SubDigits(SubSeq(a, 1, h), SubSeq(b, 1, h), borrow)
             hi == SubDigits(SubSeq(a, h + 1, Len(a)), SubSeq(b, h + 1, Len(a)), lo.c)
         IN  [s |-> lo.s \o hi.s, c |-> hi.c]

\* a - b for a >= b
BSub(a, b) == Trim(SubDigits(a, Pad(b, Len(a)), 0).s)

\* -1, 0, 1 as a < b, a = b, a > b
BCmp(a, b) ==
    IF Len(a) # Len(b) THEN (IF Len(a) < Len(b) THEN -1 ELSE 1)
    ELSE IF a = b THEN 0
    ELSE LET k == CHOOSE k \in 1 .. Len(a) :
                      /\ a[k] # b[k]
                      /\ \A j \in (k + 1) .. Len(a) : a[j] = b[j]
         IN  IF a[k] < b[k] THEN -1 ELSE 1

\* a * 2^k
Shl(a, k) == IF a = <<>> THEN a ELSE [i \in 1 .. k |-> 0] \o a

\* a * b, the digits b kept with their leading zeros
RECURSIVE BMul(_, _)
BMul(a, b) ==
    IF Len(b) = 0 THEN <<>>
    ELSE IF Len(b) = 1 THEN (IF b[1] = 1 THEN a ELSE <<>>)
    ELSE LET h == Len(b) \div 2
         IN  BAdd(BMul(a, SubSeq(b, 1, h)),
                  Shl(BMul(a, SubSeq(b, h + 1, Len(b))), h))

\* long division of r * 2^Len(a) + a by b, for r < b and the digits a kept
\* with their leading zeros: the Len(a) digits q of the quotient, highest
\* first, and the remainder r
RECURSIVE DivDigits(_, _, _)
DivDigits(r, a, b) ==
    IF Len(a) = 0 THEN [q |-> <<>>, r |-> r]
    ELSE IF Len(a) = 1
    THEN LET r1 == IF r = <<>> /\ a[1] = 0 THEN r ELSE <<a[1]>> \o r
         IN  IF BCmp(r1, b) >= 0 THEN [q |-> <<1>>, r |-> BSub(r1, b)]
             ELSE [q |-> <<0>>, r |-> r1]
    ELSE LET h == Len(a) \div 2
             hi == DivDigits(r, SubSeq(a, h + 1, Len(a)), b)
             lo == DivDigits(hi.r, SubSeq(a, 1, h), b)
         IN  [q |-> hi.q \o lo.q, r |-> lo.r]

\* quotient q and remainder r of a by b # 0
BDivMod(a, b) ==
    LET d == DivDigits(<<>>, a, b)
    IN  [q |-> Trim([i \in 1 .. Len(a) |-> d.q[Len(a) + 1 - i]]), r |-> d.r]

Zero == [neg |-> FALSE, m |-> <<>>, e |-> 0]

\* what a division by zero gives: no claim's input leads to one
NaN == [neg |-> TRUE, m |-> <<>>, e |-> 0]

\* (-1)^neg * m * 2^e with m made odd
Norm(neg, m, e) ==
    IF m = <<>> THEN Zero
    ELSE LET k == CHOOSE k \in 1 .. Len(m) :
                      m[k] = 1 /\ \A j \in 1 .. (k - 1) : m[j] = 0
         IN  [neg |-> neg, m |-> SubSeq(m, k, Len(m)), e |-> e + k - 1]

\* the exact value (-1)^neg * (m + s) * 2^e, 0 <= s < 1 and s > 0 iff
\* sticky (then m has more than SignificandBits digits), rounded
RoundToNumber(neg, m, e, sticky) ==
    IF Len(m) <= SignificandBits THEN Norm(neg, m, e)
    ELSE LET drop == Len(m) - SignificandBits
             high == SubSeq(m, drop + 1, Len(m))
             rest == sticky \/ \E k \in 1 .. (drop - 1) : m[k] = 1
             up == m[drop] = 1 /\ (rest \/ high[1] = 1)
         IN  Norm(neg, IF up THEN BAdd(high, <<1>>) ELSE high, e + drop)

Num(n) == IF n < 0 THEN Norm(TRUE, BitsOf(-n), 0) ELSE Norm(FALSE, BitsOf(n), 0)

FNeg(x) == IF x.m = <<>> THEN x ELSE [x EXCEPT !.neg = ~@]

\* x + y
FAdd(x, y) ==
    IF x.m = <<>> THEN y
    ELSE IF y.m = <<>> THEN x
    ELSE LET e == IF x.e < y.e THEN x.e ELSE y.e
             mx == Shl(x.m, x.e - e)
             my == Shl(y.m, y.e - e)
             c == BCmp(mx, my)
         IN  IF x.neg = y.neg THEN RoundToNumber(x.neg, BAdd(mx, my), e, FALSE)
             ELSE IF c = 0 THEN Zero
             ELSE IF c > 0 THEN RoundToNumber(x.neg, BSub(mx, my), e, FALSE)
             ELSE RoundToNumber(y.neg, BSub(my, mx), e, FALSE)

\* x - y
FSub(x, y) == FAdd(x, FNeg(y))

\* x * y
FMul(x, y) ==
    IF x.m = <<>> \/ y.m = <<>> THEN Zero
    ELSE RoundToNumber(x.neg # y.neg,
                       IF Len(x.m) < Len(y.m) THEN BMul(y.m, x.m)
                       ELSE BMul(x.m, y.m),
                       x.e + y.e, FALSE)

\* x / y
FDiv(x, y) ==
    IF y.m = <<>> THEN NaN
    ELSE IF x.m = <<>> THEN Zero
    ELSE LET s == SignificandBits + 2 + Len(y.m)
             d == BDivMod(Shl(x.m, s), y.m)
         IN  RoundToNumber(x.neg # y.neg, d.q, x.e - y.e - s, d.r # <<>>)

\* -1, 0, 1 as x < y, x = y, x > y
FCmp(x, y) ==
    LET d == FSub(x, y)
    IN  IF d.m = <<>> THEN 0 ELSE IF d.neg THEN -1 ELSE 1

\* Math.floor(x) for x >= 0, as an integer
Floor(x) ==
    IF x.e >= 0 THEN IntOf(Shl(x.m, x.e))
    ELSE IF -x.e >= Len(x.m) THEN 0
    ELSE IntOf(SubSeq(x.m, 1 - x.e, Len(x.m)))

\* Math.round(x) for x >= 0, as an integer: floor(x + 1/2) of the exact sum
MathRound(x) ==
    IF x.e >= 0 THEN IntOf(Shl(x.m, x.e))
    ELSE LET n == BAdd(x.m, Shl(<<1>>, -x.e - 1))
         IN  IF -x.e >= Len(n) THEN 0
             ELSE IntOf(SubSeq(n, 1 - x.e, Len(n)))

\* the digits of the significand of a Float32Array element, and the
\* exponent of its smallest positive value
SingleBits == 24

SingleMinExponent == -149

\* storing x in a Float32Array: the nearest 32-bit number, ties to even,
\* 0 for a value below half of the smallest one (the values stored are far
\* from the overflow to Infinity)
Fround(x) ==
    IF x.m = <<>> THEN x
    ELSE LET top == x.e + Len(x.m) - 1
             q == IF top - (SingleBits - 1) < SingleMinExponent
                  THEN SingleMinExponent ELSE top - (SingleBits - 1)
             drop == q - x.e
         IN  IF drop <= 0 THEN x
             ELSE LET m == IF Len(x.m) > drop THEN x.m ELSE Pad(x.m, drop + 1)
                      high == Trim(SubSeq(m, drop + 1, Len(m)))
                      rest == \E k \in 1 .. (drop - 1) : m[k] = 1
                      odd == high # <<>> /\ high[1] = 1
                      up == m[drop] = 1 /\ (rest \/ odd)
                  IN  Norm(x.neg, IF up THEN BAdd(high, <<1>>) ELSE high, q)

\* x > 0
Positive(x) == x.m # <<>> /\ ~x.neg

\* new Array(n) filled cell by cell: the function f with its cells computed
Filled(f) == f @@ <<>>

\* the value of an expression that is evaluated once, as the element of
\* the set that holds it and nothing else
The(S) == CHOOSE r \in S : TRUE

\* an array of small integers as an array of numbers
Numbers(grid) == Filled([k \in DOMAIN grid |-> Num(grid[k])])

\* the indices of an array of length n
Indices(n) == 0 .. (n - 1)

----------------------------------------------------------------------------
(* core/MeshGenerator.ts: the triangles of createMesh. A triangle is the   *)
(* triple of the grid indices its three vertices are copied from, and the  *)
(* mesh is the sequence of its triangles in the order of flatFaces; the    *)
(* positions and the colours of the vertices are left out.                 *)

\* the two triangles of the cell whose top-left corner is i: only where at
\* least one vertex has flow > 0, and only the first triangle's test
CellTriangles_firstTestOnly(smoothedFlowHeights, resolution, i) ==
    LET i1 == i
        i2 == i + 1
        i3 == i + resolution
        i4 == i + resolution + 1
        f1 == smoothedFlowHeights[i1]
        f2 == smoothedFlowHeights[i2]
        f3 == smoothedFlowHeights[i3]
    IN  IF Positive(f1) \/ Positive(f2) \/ Positive(f3)
        THEN << <<i1, i2, i3>>, <<i2, i4, i3>> >>
        ELSE <<>>

\* the body of the loop over the cells: the triangles of the cell whose
\* top-left corner is i
CellTriangles(smoothedFlowHeights, resolution, i) ==
    LET i1 == i
        i2 == i + 1
        i3 == i + resolution
        i4 == i + resolution + 1
        f1 == smoothedFlowHeights[i1]
        f2 == smoothedFlowHeights[i2]
        f3 == smoothedFlowHeights[i3]
        f4 == smoothedFlowHeights[i4]
    IN  (IF Positive(f1) \/ Positive(f2) \/ Positive(f3)
         THEN << <<i1, i2, i3>> >> ELSE <<>>)
        \o (IF Positive(f2) \/ Positive(f4) \/ Positive(f3)
            THEN << <<i2, i4, i3>> >> ELSE <<>>)

\* the loop over the cells c = y * (resolution - 1) + x, from lo to hi
RECURSIVE TrianglesOfCells(_, _, _, _)
TrianglesOfCells(smoothedFlowHeights, resolution, lo, hi) ==
    IF lo > hi THEN <<>>
    ELSE IF lo = hi
    THEN CellTriangles(smoothedFlowHeights, resolution,
                       (lo \div (resolution - 1)) * resolution
                       + (lo % (resolution - 1)))
    ELSE LET mid == (lo + hi) \div 2
         IN  TrianglesOfCells(smoothedFlowHeights, resolution, lo, mid)
             \o TrianglesOfCells(smoothedFlowHeights, resolution, mid + 1, hi)

\* "Generate triangles": flatFaces, three by three
GenerateTriangles(smoothedFlowHeights, resolution) ==
    TrianglesOfCells(smoothedFlowHeights, resolution, 0,
                     (resolution - 1) * (resolution - 1) - 1)

----------------------------------------------------------------------------
(* utils/interpolation.ts: getColorFromHeight. The stops are a sequence,   *)
(* so stops[i] of the code is stops[i + 1] here; a colour is its four      *)
(* integer channels.                                                       *)

\* prev + t * (curr - prev), rounded, for one channel
Channel(prev, curr, t) ==
    MathRound(FAdd(Num(prev), FMul(t, FSub(Num(curr), Num(prev)))))

\* getColorFromHeight with the first test made against the second stop
getColorFromHeight_secondStop(value, stops) ==
    IF FCmp(value, stops[2].value) <= 0 THEN stops[1].color
    ELSE stops[Len(stops)].color

\* getColorFromHeight that interpolates in the last pair whose upper stop
\* is at or above the value
getColorFromHeight_lastPair(value, stops) ==
    IF FCmp(value, stops[1].value) <= 0 THEN stops[1].color
    ELSE IF FCmp(value, stops[Len(stops)].value) >= 0
    THEN stops[Len(stops)].color
    ELSE LET prev == stops[Len(stops) - 1]
             curr == stops[Len(stops)]
             t == FDiv(FSub(value, prev.value), FSub(curr.value, prev.value))
         IN  [c \in 1 .. 4 |-> Channel(prev.color[c], curr.color[c], t)]

getColorFromHeight(value, stops) ==
    IF FCmp(value, stops[1].value) <= 0 THEN stops[1].color
    ELSE IF FCmp(value, stops[Len(stops)].value) >= 0
    THEN stops[Len(stops)].color
    ELSE LET found == { i \in 2 .. Len(stops) : FCmp(value, stops[i].value) <= 0 }
         IN  IF found = {} THEN stops[Len(stops)].color
             ELSE LET i == CHOOSE i \in found : \A j \in found : i <= j
                      prev == stops[i - 1]
                      curr == stops[i]
                      t == FDiv(FSub(value, prev.value),
                                FSub(curr.value, prev.value))
                  IN  [c \in 1 .. 4 |-> Channel(prev.color[c], curr.color[c], t)]

----------------------------------------------------------------------------
(* utils/interpolation.ts: applyGaussianSmooth, bilinearInterpolate and    *)
(* upsampleGrid. A grid is the function from its indices 0 .. res*res - 1  *)
(* to numbers.                                                             *)

\* the loops over dy and dx from their k-th round on: sum and weight
RECURSIVE Neighbours(_, _, _, _, _, _, _)
Neighbours(current, res, x, y, k, sum, weight) ==
    IF k = 9 THEN [sum |-> sum, weight |-> weight]
    ELSE LET dy == (k \div 3) - 1
             dx == (k % 3) - 1
             nx == x + dx
             ny == y + dy
             w == IF dx = 0 /\ dy = 0 THEN 4
                  ELSE IF dx = 0 \/ dy = 0 THEN 2 ELSE 1
         IN  IF /\ nx >= 0 /\ nx < res /\ ny >= 0 /\ ny < res
                /\ Positive(current[ny * res + nx])
             THEN Neighbours(current, res, x, y, k + 1,
                             FAdd(sum, FMul(current[ny * res + nx], Num(w))),
                             weight + w)
             ELSE Neighbours(current, res, x, y, k + 1, sum, weight)

\* the smoothed cell without the test of centerVal
SmoothCell_zeroToo(current, res, idx) ==
    LET n == Neighbours(current, res, idx % res, idx \div res, 0, Zero, 0)
    IN  IF n.weight > 0 THEN FDiv(n.sum, Num(n.weight)) ELSE current[idx]

\* smoothed[idx] of one pass
SmoothCell(current, res, idx) ==
    LET centerVal == current[idx]
        n == Neighbours(current, res, idx % res, idx \div res, 0, Zero, 0)
    IN  IF centerVal = Zero THEN Zero
        ELSE IF n.weight > 0 THEN FDiv(n.sum, Num(n.weight)) ELSE centerVal

\* the passes from pass p on
RECURSIVE SmoothFrom(_, _, _, _)
SmoothFrom(current, res, passes, p) ==
    IF p < passes
    THEN SmoothFrom(Filled([idx \in Indices(res * res) |->
                               SmoothCell(current, res, idx)]),
                    res, passes, p + 1)
    ELSE current

applyGaussianSmooth(grid, res, passes) == SmoothFrom(grid, res, passes, 0)

\* the cell at or before (x, y) and its +1 neighbours, clamped, with the
\* weights tx and ty of the neighbours
Corners(srcRes, x, y) ==
    LET fx == FMul(x, Num(srcRes - 1))
        fy == FMul(y, Num(srcRes - 1))
        x0 == Floor(fx)
        y0 == Floor(fy)
    IN  [x0 |-> x0, y0 |-> y0,
         x1 |-> IF x0 + 1 < srcRes - 1 THEN x0 + 1 ELSE srcRes - 1,
         y1 |-> IF y0 + 1 < srcRes - 1 THEN y0 + 1 ELSE srcRes - 1,
         tx |-> FSub(fx, Num(x0)), ty |-> FSub(fy, Num(y0))]

\* the indices of the four cells bilinearInterpolate reads
CellsRead(srcRes, x, y) ==
    LET c == Corners(srcRes, x, y)
    IN  { c.y0 * srcRes + c.x0, c.y0 * srcRes + c.x1,
          c.y1 * srcRes + c.x0, c.y1 * srcRes + c.x1 }

\* grid[i]: reading outside the array gives undefined, NaN in arithmetic
Cell(grid, i) == IF i \in DOMAIN grid THEN grid[i] ELSE NaN

bilinearInterpolate(grid, srcRes, x, y) ==
    LET c == Corners(srcRes, x, y)
        v00 == Cell(grid, c.y0 * srcRes + c.x0)
        v10 == Cell(grid, c.y0 * srcRes + c.x1)
        v01 == Cell(grid, c.y1 * srcRes + c.x0)
        v11 == Cell(grid, c.y1 * srcRes + c.x1)
        v0 == FAdd(FMul(v00, FSub(Num(1), c.tx)), FMul(v10, c.tx))
        v1 == FAdd(FMul(v01, FSub(Num(1), c.tx)), FMul(v11, c.tx))
    IN  FAdd(FMul(v0, FSub(Num(1), c.ty)), FMul(v1, c.ty))

upsampleGrid(srcGrid, srcRes, dstRes, flattenPasses) ==
    LET dstGrid == Filled([idx \in Indices(dstRes * dstRes) |->
                              bilinearInterpolate(
                                  srcGrid, srcRes,
                                  FDiv(Num(idx % dstRes), Num(dstRes - 1)),
                                  FDiv(Num(idx \div dstRes), Num(dstRes - 1)))])
    IN  applyGaussianSmooth(dstGrid, dstRes, flattenPasses)

----------------------------------------------------------------------------
(* core/TiffLoader.ts: loadTiffFrame, from the decoded raster on. pixels   *)
(* is the function from the indices 0 .. width*height - 1 to numbers.      *)

\* idx: the index of the pixel that is sampled for column x, row y
PixelIndex(gridResolution, width, height, x, y) ==
    LET normX == FDiv(Num(x), Num(gridResolution - 1))
        normY == FDiv(Num(y), Num(gridResolution - 1))
        px == Floor(FMul(normX, Num(width - 1)))
        py == Floor(FMul(normY, Num(height - 1)))
    IN  py * width + px

\* the flow height that keeps every value but 0 and NaN
FlowHeight_nonZero(value) == IF value.m # <<>> THEN value ELSE Zero

\* value > 0 && !isNaN(value) ? value : 0
FlowHeight(value) == IF Positive(value) THEN value ELSE Zero

\* the loops over y and x from cell k = y * gridResolution + x on; the
\* Float32Array takes the nearest 32-bit number of what is stored in it,
\* and `read` collects the values of idx
RECURSIVE SampleFrom(_, _, _, _, _, _)
SampleFrom(pixels, width, height, gridResolution, k, frame) ==
    IF k = gridResolution * gridResolution
    THEN [frame EXCEPT !.flowHeights = Filled(@)]
    ELSE LET idx == PixelIndex(gridResolution, width, height,
                               k % gridResolution, k \div gridResolution)
             flowHeight == FlowHeight(Cell(pixels, idx))
             stored == [frame EXCEPT
                           !.flowHeights = MapSet(@, k, Fround(flowHeight)),
                           !.read = @ \cup {idx}]
         IN  SampleFrom(pixels, width, height, gridResolution, k + 1,
                        IF Positive(flowHeight)
                        THEN [stored EXCEPT
                                 !.nonZeroCount = @ + 1,
                                 !.maxHeight = IF FCmp(flowHeight, @) > 0
                                               THEN flowHeight ELSE @]
                        ELSE stored)

loadTiffFrame(pixels, width, height, gridResolution) ==
    SampleFrom(pixels, width, height, gridResolution, 0,
               [flowHeights |-> EmptyMap, maxHeight |-> Zero,
                nonZeroCount |-> 0, read |-> {}])

----------------------------------------------------------------------------
(* core/MeshGenerator.ts: createMesh on the cells of a frame, as far as    *)
(* its exits and its triangles go. smoothedGridData is TRUE when the       *)
(* engine passes an upsampled ground grid and FALSE when it passes null.   *)

\* createMesh that has no exit for a mesh without triangles
createMeshOfFrame_countOnly(flowData, baseRes, smoothedGridData, smoothingFactor, flattenPasses) ==
    IF flowData.nonZeroCount = 0 THEN [exit |-> "noFlow", flatFaces |-> <<>>]
    ELSE [exit |-> "mesh",
          flatFaces |-> GenerateTriangles(flowData.flowHeights, baseRes)]

\* exit: "noFlow" for the return of null at nonZeroCount === 0,
\* "noTriangles" for the one at flatPositions.length === 0, "mesh" for the
\* return of the mesh. On the upsampling branch resolution is
\* (baseRes - 1) * smoothingFactor + 1 and smoothedFlowHeights what
\* upsampleGrid returns, else they are baseRes and flowData.flowHeights.
createMeshOfFrame(flowData, baseRes, smoothedGridData, smoothingFactor, flattenPasses) ==
    IF flowData.nonZeroCount = 0 THEN [exit |-> "noFlow", flatFaces |-> <<>>]
    ELSE
    The({ IF flatFaces = <<>>
          THEN [exit |-> "noTriangles", flatFaces |-> <<>>]
          ELSE [exit |-> "mesh", flatFaces |-> flatFaces] :
            flatFaces \in
              { IF smoothingFactor > 1 /\ smoothedGridData
                THEN GenerateTriangles(
                         upsampleGrid(flowData.flowHeights, baseRes,
                                      UpsampledResolution(baseRes, smoothingFactor),
                                      flattenPasses),
                         UpsampledResolution(baseRes, smoothingFactor))
                ELSE GenerateTriangles(flowData.flowHeights, baseRes) } })

----------------------------------------------------------------------------
(* The grid and colour functions called on their own: the arguments of a   *)
(* call are drawn when the behaviour starts, and the call is one step.     *)

\* the resolutions of the grids that are enumerated cell by cell
SmallResolutions == {2, 3}

\* flow heights as TiffLoader leaves them, 0 where there is no flow: every
\* choice of the cells with flow, with a height of k + 1 in cell k
FlowGrids(res) ==
    { [k \in Indices(res * res) |-> flow[k] * (k + 1)] :
        flow \in [Indices(res * res) -> {0, 1}] }

\* a call of fn that has not been made yet
CallOf(fn) == [NoCall EXCEPT !.fn = fn, !.done = FALSE]

TriangleCalls ==
    { [CallOf("GenerateTriangles") EXCEPT !.grid = grid, !.res = res] :
        <<res, grid>> \in UNION { {res} \X FlowGrids(res) :
                                    res \in SmallResolutions } }

\* the call returns out
Return(out) ==
    /\ calc' = [calc EXCEPT !.done = TRUE, !.out = out]
    /\ UNCHANGED <<engineVars, managerVars>>

Triangles ==
    /\ calc.fn = "GenerateTriangles" /\ ~calc.done
    /\ Return(GenerateTriangles(Numbers(calc.grid), calc.res))

\* flow heights and stop values are written in hundredths: n stands for the
\* number n / 100, which is the number the literal 0.01 * n denotes
Hundredths(n) == FDiv(Num(n), Num(100))

\* COLOR_STOPS
ColorStops ==
    << [value |-> 1, color |-> <<74, 144, 194, 220>>],
       [value |-> 20, color |-> <<139, 196, 234, 230>>],
       [value |-> 50, color |-> <<180, 220, 180, 240>>],
       [value |-> 80, color |-> <<240, 230, 140, 245>>],
       [value |-> 100, color |-> <<255, 165, 80, 250>>],
       [value |-> 150, color |-> <<255, 107, 107, 255>>],
       [value |-> 200, color |-> <<200, 50, 50, 255>> ] >>

\* the stop lists of 2 to MaxStops stops in ascending value order over a
\* few values and two colours, and COLOR_STOPS
StopLists ==
    LET stop == [value : {0, 50, 100},
                 color : {ColorStops[1].color, ColorStops[7].color}]
    IN  {ColorStops} \cup
        UNION { { stops \in [1 .. n -> stop] :
                    \A i \in 1 .. (n - 1) :
                        stops[i].value <= stops[i + 1].value } :
                n \in 2 .. MaxStops }

\* flow heights below, at, between and above the stop values
FlowValues == {-50, 0, 1, 10, 20, 25, 50, 75, 80, 100, 150, 200, 250}

ColorCalls ==
    { [CallOf("getColorFromHeight") EXCEPT !.value = value, !.stops = stops] :
        <<value, stops>> \in FlowValues \X StopLists }

Color ==
    /\ calc.fn = "getColorFromHeight" /\ ~calc.done
    /\ Return(getColorFromHeight(
                  Hundredths(calc.value),
                  [i \in DOMAIN calc.stops |->
                      [value |-> Hundredths(calc.stops[i].value),
                       color |-> calc.stops[i].color]]))

SmoothCalls ==
    { [CallOf("applyGaussianSmooth") EXCEPT
          !.grid = c[2], !.res = c[1], !.passes = c[3]] :
        c \in UNION { {res} \X FlowGrids(res) \X (0 .. MaxPasses) :
                        res \in SmallResolutions } }

Smooth ==
    /\ calc.fn = "applyGaussianSmooth" /\ ~calc.done
    /\ Return(applyGaussianSmooth(Numbers(calc.grid), calc.res, calc.passes))

\* the resolutions of the grids that are interpolated
GridResolutions == SmallResolutions \cup {MaxRes}

\* two flow grids of each resolution: flow in every cell, and in every
\* second cell
SampleGrids(res) ==
    { [k \in Indices(res * res) |-> k + 1],
      [k \in Indices(res * res) |-> (k % 2) * (k + 1)] }

\* normalized coordinates, as the pair <<n, d>> for the number n / d: the
\* grid positions i / (res - 1), and the halves and thirds
Coordinates(res) ==
    { <<i, res - 1>> : i \in Indices(res) } \cup { <<1, 2>>, <<1, 3>>, <<2, 3>> }

BilinearCalls ==
    { [CallOf("bilinearInterpolate") EXCEPT
          !.grid = c[2], !.res = c[1], !.x = c[3], !.y = c[4]] :
        c \in UNION { {res} \X SampleGrids(res)
                          \X Coordinates(res) \X Coordinates(res) :
                        res \in GridResolutions } }

Bilinear ==
    /\ calc.fn = "bilinearInterpolate" /\ ~calc.done
    /\ LET x == FDiv(Num(calc.x[1]), Num(calc.x[2]))
           y == FDiv(Num(calc.y[1]), Num(calc.y[2]))
       IN  Return([value |-> bilinearInterpolate(Numbers(calc.grid),
                                                 calc.res, x, y),
                   read |-> CellsRead(calc.res, x, y)])

\* the grids that are upsampled: the sample grids, and at the smallest
\* resolution every grid of flow and no flow
SourceGrids(res) ==
    SampleGrids(res) \cup (IF res = 2 THEN FlowGrids(res) ELSE {})

\* the upsampling of createMesh, resolution = (baseRes - 1) * factor + 1,
\* on the small grids, and the upsampling to the resolution of the source
UpsampleCalls ==
    { [CallOf("upsampleGrid") EXCEPT
          !.grid = c[2], !.res = c[1],
          !.dstRes = (c[1] - 1) * c[3] + 1, !.passes = c[4]] :
        c \in UNION { {res} \X SourceGrids(res) \X {1, 2} \X {0, 1} :
                        res \in SmallResolutions } }
    \cup { [CallOf("upsampleGrid") EXCEPT
               !.grid = grid, !.res = MaxRes, !.dstRes = MaxRes] :
             grid \in SampleGrids(MaxRes) }

Upsample ==
    /\ calc.fn = "upsampleGrid" /\ ~calc.done
    /\ Return(upsampleGrid(Numbers(calc.grid), calc.res, calc.dstRes,
                           calc.passes))

\* a positive number that is below half of the smallest 32-bit number
Tiny == [neg |-> FALSE, m |-> <<1>>, e |-> 2 * SingleMinExponent]

\* what an element of rasters[0] can be, by the type of the array: NaN, a
\* negative number, 0, 3/2 and, in 64 bits only, 1/10 and Tiny
PixelValues ==
    [ Float32Array |-> {NaN, Num(-1), Zero, FDiv(Num(3), Num(2))},
      Float64Array |-> {Zero, Hundredths(10), Tiny},
      Uint8Array |-> {Zero, Num(255)} ]

\* width and height of the decoded rasters
RasterSizes == {<<2, 1>>, <<1, 2>>, <<3, 1>>, <<2, 2>>}

FrameCalls ==
    { [CallOf("loadTiffFrame") EXCEPT
          !.type = c[1], !.width = c[2][1], !.height = c[2][2],
          !.grid = c[3], !.res = c[4]] :
        c \in UNION { {type} \X {size}
                          \X [Indices(size[1] * size[2]) -> PixelValues[type]]
                          \X SmallResolutions :
                        <<type, size>> \in (DOMAIN PixelValues) \X RasterSizes } }

Frame ==
    /\ calc.fn = "loadTiffFrame" /\ ~calc.done
    /\ Return(loadTiffFrame(calc.grid, calc.width, calc.height, calc.res))

\* the rasters meshes are built from: two pixels, in 32 bits of NaN, 0 and
\* 3/2 and in 64 bits of 0, 1/10 and Tiny
MeshRasters ==
    UNION { {type} \X {<<2, 1>>, <<1, 2>>}
                   \X [Indices(2) -> PixelValues[type] \ {Num(-1)}] :
              type \in {"Float32Array", "Float64Array"} }

\* smoothingFactor and flattenPasses of the meshes that are built from a
\* grid of resolution res
MeshParameters(res) ==
    IF res = 2 THEN {<<1, 0>>, <<2, MaxPasses>>, <<3, 1>>}
    ELSE {<<1, MaxPasses>>, <<2, 0>>}

\* loadTiffFrame on a raster and createMesh on the frame it returns, with
\* the ground grid the engine has for the factor
MeshCalls ==
    { [CallOf("createMesh") EXCEPT
          !.type = c[1][1], !.width = c[1][2][1], !.height = c[1][2][2],
          !.grid = c[1][3], !.res = c[2],
          !.smoothingFactor = c[3][1], !.passes = c[3][2]] :
        c \in UNION { MeshRasters \X {res} \X MeshParameters(res) :
                        res \in SmallResolutions } }

CreateMesh ==
    /\ calc.fn = "createMesh" /\ ~calc.done
    /\ \E flowData \in {loadTiffFrame(calc.grid, calc.width, calc.height, calc.res)} :
           Return([flowData |-> flowData,
                   mesh |-> createMeshOfFrame(flowData, calc.res,
                                              calc.smoothingFactor > 1,
                                              calc.smoothingFactor,
                                              calc.passes)])

InitMesh == InitEngine({ManagerConfigs.a}) /\ calc \in MeshCalls

SpecMesh == InitMesh /\ [][CreateMesh]_vars

GridCalls == TriangleCalls \cup ColorCalls

InitGrid == InitEngine({ManagerConfigs.a}) /\ calc \in GridCalls

NextGrid == Triangles \/ Color

SpecGrid == InitGrid /\ [][NextGrid]_vars

InitSmooth == InitEngine({ManagerConfigs.a}) /\ calc \in SmoothCalls

SpecSmooth == InitSmooth /\ [][Smooth]_vars

InitInterpolate == InitEngine({ManagerConfigs.a}) /\ calc \in BilinearCalls

SpecInterpolate == InitInterpolate /\ [][Bilinear]_vars

InitFrame == InitEngine({ManagerConfigs.a}) /\ calc \in FrameCalls

SpecFrame == InitFrame /\ [][Frame]_vars

InitUpsample == InitEngine({ManagerConfigs.a}) /\ calc \in UpsampleCalls

SpecUpsample == InitUpsample /\ [][Upsample]_vars

TypeOK ==
    /\ sim.state.currentFrameIndex \in Nat
    /\ sim.animationInterval \in {NoTimer} \cup DOMAIN timers
    /\ DOMAIN graphics = viewGraphics \cup Range(sim.meshCache)

----------------------------------------------------------------------------
(* What the properties below talk about *)

NumSteps == Len(sim.timeSteps)

\* the engine has a mesh for time t / that mesh is visible on the view
HasMesh(t) == t \in DOMAIN sim.meshCache

Visible(t) == HasMesh(t) /\ graphics[sim.meshCache[t]].visible

\* the last call was displayFrame(i), i an index of the time-step list, on
\* an engine that has its view
DisplayedValid ==
    /\ lastOp.op = "displayFrame"
    /\ sim.view
    /\ HasIndex(sim.timeSteps, lastOp.arg)

FrameChange(i) ==
    [type |-> "frameChange", frameIndex |-> i,
     totalFrames |-> NumSteps, time |-> At(sim.timeSteps, i)]

----------------------------------------------------------------------------
(* Properties *)

\* C1: after displayFrame(i) with i a valid index, currentFrameIndex = i, the
\* mesh of step i is visible if the step has one, and every other mesh (the
\* previously current frame's among them) is hidden, so nothing is shown
\* when step i has no mesh.
C1_DisplayFrameShowsOnlyFrame ==
    DisplayedValid =>
        /\ sim.state.currentFrameIndex = lastOp.arg
        /\ HasMesh(At(sim.timeSteps, lastOp.arg))
              => Visible(At(sim.timeSteps, lastOp.arg))
        /\ lastOp.from # lastOp.arg /\ HasIndex(sim.timeSteps, lastOp.from)
              => ~Visible(At(sim.timeSteps, lastOp.from))
        /\ \A t \in DOMAIN sim.meshCache :
              Visible(t) => t = At(sim.timeSteps, lastOp.arg)

\* the last of displayFrame(0), displayFrame(1), displayFrame(0), both
\* frames having a mesh
C1_Witness ==
    /\ DisplayedValid
    /\ lastOp.arg = 0 /\ lastOp.from = 1
    /\ HasMesh(At(sim.timeSteps, 0)) /\ HasMesh(At(sim.timeSteps, 1))
    /\ Visible(At(sim.timeSteps, 0))
    /\ ~Visible(At(sim.timeSteps, 1))

\* C2: a displayFrame(i) call with a valid index emits exactly one
\* notification, a frameChange with frameIndex = i and time = timeSteps[i],
\* also when i is the current index and when step i has no mesh.
C2_OneFrameChangePerDisplay ==
    DisplayedValid => emitted = << FrameChange(lastOp.arg) >>

\* displayFrame of the index that was current already, on a loaded engine
\* whose step has no mesh
C2_Witness ==
    /\ DisplayedValid
    /\ initPc = "done"
    /\ lastOp.from = lastOp.arg
    /\ ~HasMesh(At(sim.timeSteps, lastOp.arg))
    /\ Len(emitted) = 1

\* C3: displayFrame(i) with i outside the time-step list changes nothing:
\* the engine (index, play state, caches), the meshes and their visibility
\* and the timers stay as they are, and nothing is emitted.
C3_OutOfRangeIsNoOp ==
    [][ (lastOp'.op = "displayFrame" /\ ~HasIndex(sim.timeSteps, lastOp'.arg))
          => /\ sim' = sim
             /\ graphics' = graphics
             /\ viewGraphics' = viewGraphics
             /\ timers' = timers
             /\ emitted' = <<>> ]_vars

\* displayFrame(n) on a playing engine that shows a mesh
C3_Witness ==
    /\ lastOp.op = "displayFrame"
    /\ lastOp.arg = NumSteps
    /\ sim.view /\ sim.state.isPlaying
    /\ \E t \in DOMAIN sim.meshCache : Visible(t)
    /\ emitted = <<>>

\* C4: once pause() has returned and until play() is called again, no timer
\* tick changes the frame or emits a frameChange (a tick that emits nothing
\* changed nothing).
C4_NoTickAfterPause ==
    (lastOp.op = "tick" /\ quiet) => emitted = <<>>

C6_PlayWhilePlayingIsNoOp ==
    [][ (lastOp'.op = "play" /\ sim.state.isPlaying)
          => /\ sim' = sim
             /\ timers' = timers
             /\ emitted' = <<>> ]_vars

C6_Witness ==
    /\ lastOp.op = "play" /\ lastOp.was
    /\ sim.state.isPlaying
    /\ Cardinality(DOMAIN timers) = 1
    /\ emitted = <<>>

\* C7: a timer tick on an engine with its view and n >= 1 steps displays
\* index currentFrameIndex + 1 when that is < n and index 0 otherwise,
\* whether or not the step has a mesh, and leaves the timer running.
C7_TickAdvancesCyclically ==
    [][ (lastOp'.op = "tick" /\ sim.view /\ NumSteps >= 1)
          => LET next == IF sim.state.currentFrameIndex + 1 < NumSteps
                         THEN sim.state.currentFrameIndex + 1 ELSE 0
             IN  /\ sim'.state.currentFrameIndex = next
                 /\ sim'.currentFrameTime = At(sim.timeSteps, next)
                 /\ emitted' = << FrameChange(next) >>
                 /\ timers' = timers
                 /\ sim'.state.isPlaying = sim.state.isPlaying ]_vars

\* a tick has wrapped from the last frame to frame 0, which has no mesh
C7_Witness ==
    /\ lastOp.op = "tick"
    /\ initPc = "done" /\ sim.view /\ NumSteps >= 2
    /\ sim.state.isPlaying
    /\ sim.state.currentFrameIndex = 0
    /\ emitted = << FrameChange(0) >>
    /\ ~HasMesh(At(sim.timeSteps, 0))
    /\ HasMesh(At(sim.timeSteps, NumSteps - 1))

\* C8: after pause() the engine is not playing and no timer is live; pause()
\* on an engine that is not playing (so also a second pause in a row)
\* leaves the engine, its meshes and their visibility as they were.
C8_PauseIdempotent ==
    [][ lastOp'.op = "pause"
          => /\ ~sim'.state.isPlaying
             /\ sim'.animationInterval = NoTimer
             /\ timers' = EmptyMap
             /\ ~sim.state.isPlaying
                  => /\ sim' = sim
                     /\ timers' = timers
                     /\ graphics' = graphics
                     /\ viewGraphics' = viewGraphics ]_vars

\* pause() on a paused engine that shows a frame
C8_Witness ==
    /\ lastOp.op = "pause" /\ ~lastOp.was
    /\ initPc = "done"
    /\ \E t \in DOMAIN sim.meshCache : Visible(t)
    /\ ~sim.state.isPlaying
    /\ timers = EmptyMap

\* C9: setSpeed(ms) sets playbackSpeed = ms and keeps isPlaying and
\* currentFrameIndex; a playing engine is left with exactly one live timer,
\* of period ms, and an engine that is not playing gets no timer.
C9_SetSpeedKeepsPlayState ==
    [][ lastOp'.op = "setSpeed"
          => /\ sim'.state.playbackSpeed = lastOp'.arg
             /\ sim'.state.isPlaying = sim.state.isPlaying
             /\ sim'.state.currentFrameIndex = sim.state.currentFrameIndex
             /\ IF sim.state.isPlaying
                THEN /\ Cardinality(DOMAIN timers') = 1
                     /\ sim'.animationInterval \in DOMAIN timers'
                     /\ timers'[sim'.animationInterval] = lastOp'.arg
                ELSE timers' = timers ]_vars

\* setSpeed to another period while playing
C9_Witness ==
    /\ lastOp.op = "setSpeed" /\ lastOp.was
    /\ lastOp.arg # DefaultPlaybackSpeed
    /\ sim.state.isPlaying
    /\ sim.state.playbackSpeed = lastOp.arg
    /\ timers = MapSet(EmptyMap, sim.animationInterval, lastOp.arg)

\* C10: every mesh in the cache was built with the current smoothingFactor
\* and flattenPasses (and, when upsampled, on the ground grid of that
\* factor); the view holds the cached meshes and no older one; and after
\* setSmoothing / setFlattenPasses the current frame's mesh is the one shown.
C10_CacheBuiltWithCurrentParameters ==
    /\ \A t \in DOMAIN sim.meshCache :
          LET g == graphics[sim.meshCache[t]]
          IN  /\ g.smoothingFactor = sim.state.smoothingFactor
              /\ g.flattenPasses = sim.state.flattenPasses
              /\ g.geometry.time = t
              /\ g.geometry.upsampled = (sim.state.smoothingFactor > 1)
              /\ g.geometry.upsampled
                    => /\ g.geometry.factor = sim.state.smoothingFactor
                       /\ g.geometry.ground = sim.state.smoothingFactor
                       /\ g.geometry.passes = sim.state.flattenPasses
    /\ viewGraphics = Range(sim.meshCache)
    /\ (lastOp.op \in {"setSmoothing", "setFlattenPasses"} /\ sim.view)
          => \A t \in DOMAIN sim.meshCache :
                Visible(t) <=> /\ HasIndex(sim.timeSteps, sim.state.currentFrameIndex)
                               /\ t = At(sim.timeSteps, sim.state.currentFrameIndex)

\* both parameters changed from their defaults, the cache rebuilt and the
\* current frame shown again
C10_Witness ==
    /\ lastOp.op = "setFlattenPasses"
    /\ sim.state.flattenPasses # DefaultFlattenPasses
    /\ sim.state.smoothingFactor \notin {1, DefaultSmoothingFactor}
    /\ sim.state.currentFrameIndex = 1
    /\ Visible(At(sim.timeSteps, 1))
    /\ HasMesh(At(sim.timeSteps, 0))

\* C11 as stated: on an engine that has just been initialized,
\* setSmoothing(3) and then setSmoothing(1) leave a mesh set equal, mesh
\* for mesh, to the one the initial build produced.
C11_RoundTripThroughOne ==
    (initialBuild.fresh /\ initialBuild.since = <<3, 1>>)
        => MeshSet(World) = initialBuild.meshes

\* C11: the initial build is made with the smoothing factor the engine has
\* when initialize() ends, the default 2 unless setSmoothing was called
\* before. On an engine that has just been initialized setSmoothing(3) and
\* then setSmoothing(that factor) leave a mesh set equal, mesh for mesh, to
\* the initial build; setSmoothing(3) and then setSmoothing(1) leave a mesh
\* for each time step the initial build had one for, built at the base
\* resolution.
C11_RoundTripThroughInitialFactor ==
    /\ (initialBuild.fresh /\ initialBuild.since = <<3, initialBuild.factor>>)
          => MeshSet(World) = initialBuild.meshes
    /\ (initialBuild.fresh /\ initialBuild.since = <<3, 1>>)
          => /\ DOMAIN sim.meshCache = DOMAIN initialBuild.meshes
             /\ \A t \in DOMAIN sim.meshCache :
                   ~graphics[sim.meshCache[t]].geometry.upsampled

\* the round trip through 3 on an engine that built a mesh for every step
\* with the default factor
C11_Witness ==
    /\ initialBuild.fresh
    /\ initialBuild.factor = DefaultSmoothingFactor
    /\ initialBuild.since = <<3, DefaultSmoothingFactor>>
    /\ NumSteps >= 2
    /\ DOMAIN initialBuild.meshes = Range(sim.timeSteps)
    /\ MeshSet(World) = initialBuild.meshes

C14_DisposedIsTerminal ==
    [][ ( /\ disposed
          /\ lastOp'.op \in {"play", "pause", "togglePlay", "reset",
                             "displayFrame", "setSpeed", "setSmoothing",
                             "setFlattenPasses", "seekToTime", "show", "hide"} )
          => /\ sim' = sim
             /\ timers' = timers
             /\ graphics' = graphics
             /\ viewGraphics' = viewGraphics
             /\ ~sim'.state.isPlaying ]_vars

\* the time steps whose frame preloadAllFrames loaded with a positive cell
LoadedWithFlow == { t \in DOMAIN loadCache : loadCache[t].nonZeroCount > 0 }

\* C15: when initialize() completes, the mesh cache holds one mesh for
\* every time step whose frame loaded and has a positive cell, each of them
\* attached to the view and hidden, and 'ready' is emitted once, by the
\* step that built the cache and after the build.
C15_ReadyAfterFullBuild ==
    lastOp.op = "ready" =>
        /\ DOMAIN sim.meshCache = LoadedWithFlow
        /\ \A t \in LoadedWithFlow :
              /\ sim.meshCache[t] \in viewGraphics
              /\ ~graphics[sim.meshCache[t]].visible
              /\ graphics[sim.meshCache[t]].geometry.time = t
        /\ emitted = << [type |-> "ready"] >>

\* the log entries of the loader
Fetch(t) == [ev |-> "fetch", time |-> t]

Progress(k) == [ev |-> "progress", loaded |-> k, total |-> NumSteps]

\* the attempt for time t has ended, by a frame or by an error
Ended(e, t) == e \in { [ev |-> "loaded", time |-> t], [ev |-> "failed", time |-> t] }

\* preloadAllFrames has returned
Preloaded == initPc \in {"elevation", "done", "failed"}

\* C17: the loader works on one time step at a time, in time-step order:
\* the log is fetch, end of the attempt, onProgress(k, total) for
\* k = 1, 2, .. in turn, the fetch of step k + 1 coming after the progress
\* call of step k; whether the attempts succeed or fail, onProgress has
\* been called once per attempt made, and total times when the loader
\* has returned.
C17_OneStepAtATimeWithProgress ==
    initPc # "idle" =>
        /\ loadedCount <= NumSteps
        /\ Len(loaderLog) = 3 * loadedCount + (IF loadedCount < NumSteps THEN 1 ELSE 0)
        /\ \A k \in 1 .. loadedCount :
              /\ loaderLog[3 * k - 2] = Fetch(sim.timeSteps[k])
              /\ Ended(loaderLog[3 * k - 1], sim.timeSteps[k])
              /\ loaderLog[3 * k] = Progress(k)
        /\ loadedCount < NumSteps
              => loaderLog[3 * loadedCount + 1] = Fetch(sim.timeSteps[loadedCount + 1])
        /\ Preloaded => loadedCount = NumSteps

\* time steps 0, 2, 4: three attempts of which one failed, three callbacks
C17_Witness ==
    /\ Preloaded
    /\ sim.timeSteps = <<0, 2, 4>>
    /\ Cardinality({ k \in 1 .. Len(loaderLog) : loaderLog[k].ev = "failed" }) = 1
    /\ Cardinality({ k \in 1 .. Len(loaderLog) : loaderLog[k].ev = "progress" }) = 3
    /\ loaderLog[Len(loaderLog)] = Progress(3)

\* C18: a frame that fails to load does not end the batch: when the loader
\* has returned every time step was attempted, and at any time the frame
\* cache holds the time steps whose load succeeded and no other, each under
\* its nominal time; initialize() goes on with that cache.
C18_FailedLoadDoesNotAbort ==
    /\ DOMAIN loadCache =
          { t \in Range(sim.timeSteps) :
              \E k \in 1 .. Len(loaderLog) : loaderLog[k] = [ev |-> "loaded", time |-> t] }
    /\ Preloaded =>
          \A t \in Range(sim.timeSteps) :
              \E k \in 1 .. Len(loaderLog) : loaderLog[k] = Fetch(t)
    /\ initPc = "elevation" => sim.frameCache = loadCache

\* time steps 0, 2, 4: the first load failed, the cache has steps 2 and 4
C18_Witness ==
    /\ initPc = "elevation"
    /\ sim.timeSteps = <<0, 2, 4>>
    /\ loaderLog[2] = [ev |-> "failed", time |-> 0]
    /\ DOMAIN loadCache = {2, 4}
    /\ DOMAIN sim.frameCache = {2, 4}

\* C19: for integer start, end and timeInterval > 0 the time steps are
\* start + k * interval for k = 0, 1, .. as long as that is <= end, in
\* ascending order, and none when start > end; [0, 4] by 2 gives 0, 2, 4.
C19_TimeStepsAreTheArithmeticProgression ==
    LET start == sim.config.timeRange[1]
        end == sim.config.timeRange[2]
        interval == sim.config.timeInterval
        steps == generateTimeSteps(sim.config)
        n == Len(steps)
    IN  /\ sim.timeSteps = steps
        /\ \A k \in 1 .. n : steps[k] = start + (k - 1) * interval /\ steps[k] <= end
        /\ start + n * interval > end
        /\ \A k \in 1 .. (n - 1) : steps[k] < steps[k + 1]
        /\ start > end => steps = <<>>
        /\ (start = 0 /\ end = 4 /\ interval = 2) => steps = <<0, 2, 4>>

\* the loader at work on the steps of timeRange [0, 4], timeInterval 2
C19_Witness ==
    /\ sim.config.timeRange = <<0, 4>> /\ sim.config.timeInterval = 2
    /\ initPc = "preload"
    /\ sim.timeSteps = <<0, 2, 4>>
    /\ loaderLog = << Fetch(0) >>

\* the engine registered under the id
EngineOf(id) == engines[manager.simulations[id]]

\* the engine shows the mesh of time step t
Shows(w, t) ==
    t \in DOMAIN w.sim.meshCache /\ w.graphics[w.sim.meshCache[t]].visible

\* a switchToAvalanche(id) call has returned without error, no other call
\* having been made between its steps
SwitchedAlone ==
    managerOp.op = "switchTo" /\ managerOp.pc = "done" /\ managerOp.alone

\* what holds of every such call: the active id is id, the engine that
\* was active before (if another) is not playing and shows no mesh, and
\* the call has emitted one avalancheChange{id} and nothing else, the
\* active id being id by then
SwitchedRest ==
    LET id == managerOp.id
    IN  /\ manager.activeSimulationId = id
        /\ (managerOp.prev # NoId /\ managerOp.prev # id)
              => /\ ~EngineOf(managerOp.prev).sim.state.isPlaying
                 /\ EngineOf(managerOp.prev).timers = EmptyMap
                 /\ \A t \in DOMAIN EngineOf(managerOp.prev).sim.meshCache :
                       ~Shows(EngineOf(managerOp.prev), t)
        /\ managerOp.emitted = << [type |-> "avalancheChange", avalancheId |-> id] >>

\* the engine is at frame 0 and shows the mesh of its first time step if
\* it has one
AtFrameZero(w) ==
    /\ w.sim.state.currentFrameIndex = 0
    /\ w.sim.timeSteps[1] \in DOMAIN w.sim.meshCache
          => Shows(w, w.sim.timeSteps[1])

\* C20 as stated: after a switchToAvalanche(id) that returns without error
\* and with no other call interleaved, the target engine is at frame 0 with
\* its frame-0 mesh (if any) visible, and the rest above holds.
C20_SwitchLeavesTargetAtFrameZero ==
    SwitchedAlone => (AtFrameZero(EngineOf(managerOp.id)) /\ SwitchedRest)

\* C20: switchToAvalanche does not pause its target. After such a call
\* the rest above holds, and a target that is not playing is at frame 0
\* with its frame-0 mesh (if any) visible; a target that is playing (after
\* playAll) was put at frame 0 before the zoom and shows the mesh of the
\* frame its timer has taken it to since.
C20_SwitchShowsTarget ==
    SwitchedAlone =>
        LET target == EngineOf(managerOp.id)
        IN  /\ SwitchedRest
            /\ ~target.sim.state.isPlaying => AtFrameZero(target)
            /\ \A t \in DOMAIN target.sim.meshCache :
                  Shows(target, t) <=>
                      t = target.sim.timeSteps[target.sim.state.currentFrameIndex + 1]

\* a switch from one engine to another that was loaded before: the target
\* shows its first frame and the engine left shows nothing
C20_Witness ==
    /\ SwitchedAlone
    /\ managerOp.prev # NoId /\ managerOp.prev # managerOp.id
    /\ ~EngineOf(managerOp.id).sim.state.isPlaying
    /\ Len(EngineOf(managerOp.id).sim.timeSteps) >= 2
    /\ Shows(EngineOf(managerOp.id), 0)
    /\ DOMAIN EngineOf(managerOp.prev).sim.meshCache # {}

\* C16: when no frame of a simulation loads, initialize() throws without
\* having emitted 'ready' or attached a mesh, the switchToAvalanche call
\* ends with that error and the engine is not registered: the active
\* engine is the one it was and the id stays unloaded, so the next load of
\* the id makes a new engine. Every engine the manager holds (the ones
\* getActiveSimulation returns and playAll plays) has its frames, its
\* ground grid and its meshes.
C16_FailedEngineIsNotRegistered ==
    /\ (managerOp.op = "switchTo" /\ managerOp.pc = "failed"
                                  /\ managerOp.id \in SimulationIds)
          => /\ managerOp.simulation.sim.frameCache = EmptyMap
             /\ managerOp.simulation.emitted = <<>>
             /\ managerOp.simulation.viewGraphics = {}
             /\ managerOp.simulation.sim.meshCache = EmptyMap
             /\ managerOp.id \notin DOMAIN manager.simulations
             /\ manager.activeSimulationId = managerOp.prev
             /\ \A k \in DOMAIN engines : k.id # managerOp.id
    /\ \A i \in 1 .. Len(tasks) :
          tasks[i].pc = "loading"
              => tasks[i].simulation = initializing(ManagerConfigs[tasks[i].id])
    /\ DOMAIN engines = Range(manager.simulations)
    /\ \A k \in DOMAIN engines :
          LET e == engines[k].sim
          IN  /\ e.view /\ e.baseGridData /\ e.meshExtent
              /\ e.frameCache # EmptyMap
              /\ DOMAIN e.meshCache =
                    { t \in DOMAIN e.frameCache : e.frameCache[t].nonZeroCount > 0 }
    /\ getActiveSimulation(ManagerWorld) \in {NoEngine} \cup DOMAIN engines

\* a switch to a simulation none of whose frames loads, another engine
\* being active
C16_Witness ==
    /\ managerOp.op = "switchTo" /\ managerOp.pc = "failed"
    /\ managerOp.id \in SimulationIds
    /\ managerOp.prev # NoId
    /\ manager.activeSimulationId = managerOp.prev
    /\ managerOp.id \notin DOMAIN manager.simulations
    /\ tasks = <<>>

\* the indices of the engine's time steps that are >= time
AtOrAfter(w, time) ==
    { i \in 0 .. (Len(w.sim.timeSteps) - 1) : At(w.sim.timeSteps, i) >= time }

SwitchFailedAlone ==
    managerOp.op = "switchTo" /\ managerOp.pc = "failed" /\ managerOp.alone

\* C21: when switchToAvalanche(id) fails, for an id that is not in the
\* configs or for a simulation none of whose frames loads, the active id is
\* the one it was and the engine that was active plays or not, and shows
\* the meshes, as it did when the call was made.
C21_FailedSwitchLeavesPriorState ==
    SwitchFailedAlone =>
        /\ manager.activeSimulationId = managerOp.prev
        /\ Snapshot(ManagerWorld) = managerOp.before

\* C22: once every switchToAvalanche call has completed, however the
\* calls were interleaved at their awaits, an engine that has a visible
\* mesh is the engine of the active id: no two engines are visible.
C22_SwitchesAreSerialized ==
    tasks = <<>> =>
        \A k \in DOMAIN engines :
            (\E t \in DOMAIN engines[k].sim.meshCache : Shows(engines[k], t))
                => k = getActiveSimulation(ManagerWorld)

\* the engine plays on one timer, whose period is its playbackSpeed
PlaysAtOwnSpeed(w) ==
    /\ w.sim.state.isPlaying
    /\ DOMAIN w.timers = {w.sim.animationInterval}
    /\ w.sim.animationInterval # NoTimer
    /\ w.timers[w.sim.animationInterval] = w.sim.state.playbackSpeed

\* a step of a playAll() call that no other call was interleaved with:
\* its first step, to the zoom, and its last step, from the zoom
PlayAllBegins == managerOp'.op = "playAll" /\ managerOp'.pc = "zoom"

PlayAllEnds ==
    managerOp'.op = "playAll" /\ managerOp'.pc = "done" /\ managerOp'.alone

\* C23 as stated: after playAll() play-all mode is on and every loaded
\* engine plays on one timer at its own speed, and each engine was put at
\* frame 0 and shown while it had no timer yet.
C23_PlayAllStartsEveryEngineAtFrameZero ==
    [][ /\ PlayAllBegins
          => \A k \in Range(manager'.simulations) :
                /\ AtFrameZero(engines'[k])
                /\ engines'[k].timers = EmptyMap
        /\ PlayAllEnds
          => /\ manager'.playAllMode
             /\ \A k \in Range(manager'.simulations) : PlaysAtOwnSpeed(engines'[k]) ]_vars

\* C23: playAll() does not pause an engine that is playing when it is
\* called. It turns play-all mode on and puts every loaded engine at frame
\* 0 and shows it, leaving the timers as they are; after the zoom it
\* starts a timer for each engine that is not playing, which is at frame 0
\* and shown then, and every loaded engine plays on one timer at its own
\* speed. An engine that was playing already keeps its timer and is
\* advanced by it during the zoom.
C23_PlayAllPlaysEveryEngine ==
    [][ /\ PlayAllBegins
          => /\ manager'.playAllMode
             /\ \A k \in Range(manager'.simulations) :
                   /\ AtFrameZero(engines'[k])
                   /\ engines'[k].timers = engines[k].timers
                   /\ engines'[k].sim.state.isPlaying = engines[k].sim.state.isPlaying
        /\ PlayAllEnds
          => /\ manager'.playAllMode
             /\ DOMAIN engines' = DOMAIN engines
             /\ \A k \in Range(manager'.simulations) :
                   /\ PlaysAtOwnSpeed(engines'[k])
                   /\ engines'[k].sim.state.currentFrameIndex
                         = engines[k].sim.state.currentFrameIndex
                   /\ IF engines[k].sim.state.isPlaying
                      THEN engines'[k].timers = engines[k].timers
                      ELSE /\ engines[k].timers = EmptyMap
                           /\ AtFrameZero(engines[k]) ]_vars

\* playAll() has completed with both simulations loaded: both engines
\* play, each on its own timer, from frame 0
C23_Witness ==
    /\ managerOp.op = "playAll" /\ managerOp.pc = "done" /\ managerOp.alone
    /\ manager.playAllMode
    /\ DOMAIN manager.simulations = SimulationIds
    /\ \A id \in SimulationIds :
          PlaysAtOwnSpeed(EngineOf(id)) /\ AtFrameZero(EngineOf(id))

\* C24: when stopAll() returns play-all mode is off, no engine is playing
\* or has a live timer, no engine other than the active one shows a mesh
\* on the view, and the active engine (if there is one) shows the mesh of
\* its current frame, if the frame has one, and no other.
C24_StopAllLeavesActiveOnly ==
    managerOp.op = "stopAll" =>
        /\ ~manager.playAllMode
        /\ \A k \in DOMAIN engines :
              /\ ~engines[k].sim.state.isPlaying
              /\ engines[k].timers = EmptyMap
              /\ engines[k].sim.animationInterval = NoTimer
              /\ \A t \in DOMAIN engines[k].sim.meshCache :
                    Shows(engines[k], t) <=>
                        /\ k = getActiveSimulation(ManagerWorld)
                        /\ t = engines[k].sim.currentFrameTime

\* the Graphic objects are the ones they were, whatever their visibility
SameMeshes ==
    /\ DOMAIN graphics' = DOMAIN graphics
    /\ \A id \in DOMAIN graphics :
          graphics'[id] = [graphics[id] EXCEPT !.visible = graphics'[id].visible]

\* C25: hide() leaves every cached mesh invisible; show() leaves the mesh
\* of the current frame visible and no other mesh (none when the frame has
\* no mesh or no frame was displayed yet). Both leave the engine object
\* (currentFrameIndex, isPlaying, the caches), the timers and the meshes on
\* the view as they are, and emit nothing.
C25_HideShowOnlyToggleVisibility ==
    [][ /\ lastOp'.op \in {"hide", "show"}
          => /\ sim' = sim
             /\ timers' = timers
             /\ viewGraphics' = viewGraphics
             /\ SameMeshes
             /\ emitted' = <<>>
        /\ lastOp'.op = "hide"
          => \A t \in DOMAIN sim.meshCache : ~graphics'[sim.meshCache[t]].visible
        /\ lastOp'.op = "show"
          => \A t \in DOMAIN sim.meshCache :
                graphics'[sim.meshCache[t]].visible <=> t = sim.currentFrameTime ]_vars

\* show() on a playing engine at its second frame, the first frame having
\* a mesh too
C25_Witness ==
    /\ lastOp.op = "show"
    /\ sim.state.isPlaying
    /\ sim.state.currentFrameIndex = 1
    /\ Visible(At(sim.timeSteps, 1))
    /\ HasMesh(At(sim.timeSteps, 0))
    /\ emitted = <<>>

\* the triangles (i1,i2,i3) and (i2,i4,i3) of the cell at column x, row y
TriangleA(res, x, y) ==
    <<y * res + x, y * res + x + 1, (y + 1) * res + x>>

TriangleB(res, x, y) ==
    <<y * res + x + 1, (y + 1) * res + x + 1, (y + 1) * res + x>>

Emitted(t) == \E k \in 1 .. Len(calc.out) : calc.out[k] = t

HasFlow(t) == \E k \in 1 .. 3 : calc.grid[t[k]] > 0

\* C26: mesh building emits, for every 2x2 cell of the grid, triangle
\* A = (i1,i2,i3) exactly when one of these three corners has flow height > 0
\* and triangle B = (i2,i4,i3) exactly when one of these three has, each at
\* most once and nothing else; hence no emitted triangle has three zero
\* corners, and a cell with exactly one non-zero corner yields a triangle
\* that contains this corner.
C26_TrianglesWhereFlow ==
    (calc.fn = "GenerateTriangles" /\ calc.done) =>
        LET cells == Indices(calc.res - 1) \X Indices(calc.res - 1)
            all == { TriangleA(calc.res, c[1], c[2]) : c \in cells }
                   \cup { TriangleB(calc.res, c[1], c[2]) : c \in cells }
        IN  /\ \A t \in all : Emitted(t) <=> HasFlow(t)
            /\ \A k \in 1 .. Len(calc.out) :
                   /\ calc.out[k] \in all
                   /\ HasFlow(calc.out[k])
                   /\ \A j \in 1 .. Len(calc.out) :
                          calc.out[j] = calc.out[k] => j = k
            /\ \A c \in cells :
                   LET corners == { c[2] * calc.res + c[1],
                                    c[2] * calc.res + c[1] + 1,
                                    (c[2] + 1) * calc.res + c[1],
                                    (c[2] + 1) * calc.res + c[1] + 1 }
                       nonZero == { i \in corners : calc.grid[i] # 0 }
                   IN  Cardinality(nonZero) = 1 =>
                           \E t \in { TriangleA(calc.res, c[1], c[2]),
                                      TriangleB(calc.res, c[1], c[2]) } :
                               /\ Emitted(t)
                               /\ \E k \in 1 .. 3 : t[k] \in nonZero

\* a cell whose only flow is at its top-left corner has yielded triangle A
\* and not triangle B
C26_Witness ==
    /\ calc.fn = "GenerateTriangles" /\ calc.done
    /\ calc.res = 3
    /\ { i \in DOMAIN calc.grid : calc.grid[i] > 0 } = {4}
    /\ Emitted(TriangleA(3, 1, 1)) /\ ~Emitted(TriangleB(3, 1, 1))
    /\ Len(calc.out) = 6

FirstStop == calc.stops[1]

LastStop == calc.stops[Len(calc.stops)]

C28_SmoothKeepsZeros ==
    (calc.fn = "applyGaussianSmooth" /\ calc.done) =>
        /\ calc.passes = 0 => calc.out = Numbers(calc.grid)
        /\ DOMAIN calc.out = DOMAIN calc.grid
        /\ \A k \in DOMAIN calc.grid : calc.grid[k] = 0 => calc.out[k] = Zero

\* two passes have changed a cell with flow and left 0 in a cell next to it
C28_Witness ==
    /\ calc.fn = "applyGaussianSmooth" /\ calc.done
    /\ calc.passes = 2 /\ calc.res = 3
    /\ calc.grid[4] = 0 /\ calc.out[4] = Zero
    /\ calc.grid[3] > 0 /\ calc.grid[5] > 0
    /\ calc.out[3] # Num(calc.grid[3])

\* C29: upsample(src, srcRes, dstRes, flattenPasses) with dstRes = srcRes and
\* flattenPasses = 0 returns a grid equal cell for cell to the source grid.
C29_UpsampleToSameResolutionIsIdentity ==
    (/\ calc.fn = "upsampleGrid" /\ calc.done
     /\ calc.dstRes = calc.res /\ calc.passes = 0)
        => calc.out = Numbers(calc.grid)

\* C30: for srcRes >= 2 and every grid index (i, j), bilinear(grid, srcRes,
\* i/(srcRes-1), j/(srcRes-1)) equals grid[j*srcRes + i] exactly; and for
\* every x, y in [0,1], x = 1 and y = 1 included, the four cells read lie
\* inside the grid.
C30_BilinearExactAtGridPositions ==
    (calc.fn = "bilinearInterpolate" /\ calc.done) =>
        /\ (calc.x[2] = calc.res - 1 /\ calc.y[2] = calc.res - 1)
               => calc.out.value
                      = Num(calc.grid[calc.y[1] * calc.res + calc.x[1]])
        /\ calc.out.read \subseteq DOMAIN calc.grid

\* the stop values of the call are strictly increasing
StrictlyIncreasing ==
    \A i \in 1 .. (Len(calc.stops) - 1) :
        calc.stops[i].value < calc.stops[i + 1].value

\* the call's value is strictly between the first and the last stop value
Between == FirstStop.value < calc.value /\ calc.value < LastStop.value

\* the consecutive pairs (stops[i - 1], stops[i]) that bracket the value
Bracketing ==
    { i \in 2 .. Len(calc.stops) :
        calc.stops[i - 1].value < calc.value /\ calc.value <= calc.stops[i].value }

\* a lies between b and c
Within(a, b, c) == (b <= a /\ a <= c) \/ (c <= a /\ a <= b)

\* C31: for a stop list with strictly increasing values and a value v
\* strictly between the first and the last stop value, exactly one
\* consecutive pair (prev, curr) has prev.value < v <= curr.value, and
\* each channel of colorFor(v) is round(prev + t * (curr - prev)) with
\* t = (v - prev.value) / (curr.value - prev.value); at v equal to a
\* stop's value the result is that stop's colour, and every channel lies
\* between the channels of prev and curr.
C31_InterpolatesWithinBracketingPair ==
    (/\ calc.fn = "getColorFromHeight" /\ calc.done
     /\ StrictlyIncreasing /\ Between) =>
        /\ Cardinality(Bracketing) = 1
        /\ \A i \in Bracketing :
              LET prev == calc.stops[i - 1]
                  curr == calc.stops[i]
                  t == FDiv(FSub(Hundredths(calc.value), Hundredths(prev.value)),
                            FSub(Hundredths(curr.value), Hundredths(prev.value)))
              IN  /\ \A c \in 1 .. 4 :
                        /\ calc.out[c] = Channel(prev.color[c], curr.color[c], t)
                        /\ Within(calc.out[c], prev.color[c], curr.color[c])
                  /\ calc.value = curr.value => calc.out = curr.color

\* a value between the third and the fourth stop of COLOR_STOPS has got a
\* colour that is neither stop's in any channel
C31_Witness ==
    /\ calc.fn = "getColorFromHeight" /\ calc.done
    /\ calc.stops = ColorStops
    /\ calc.value = 75
    /\ \A c \in 1 .. 4 :
          calc.out[c] \notin {ColorStops[3].color[c], ColorStops[4].color[c]}

\* the cells of the returned grid that are > 0
PositiveCells == { k \in DOMAIN calc.out.flowHeights :
                     Positive(calc.out.flowHeights[k]) }

\* the pixel that was sampled for cell k, and the cells with a sample > 0
Sample(k) ==
    calc.grid[PixelIndex(calc.res, calc.width, calc.height,
                         k % calc.res, k \div calc.res)]

PositiveSamples == { k \in Indices(calc.res * calc.res) : Positive(Sample(k)) }

\* the grid has resolution^2 cells >= 0, 0 where the sample is NaN,
\* negative or 0, and every pixel index read is inside the raster
CellsNotNegative ==
    /\ DOMAIN calc.out.flowHeights = Indices(calc.res * calc.res)
    /\ \A k \in DOMAIN calc.out.flowHeights :
          /\ calc.out.flowHeights[k] = Zero \/ k \in PositiveCells
          /\ ~Positive(Sample(k)) => calc.out.flowHeights[k] = Zero
    /\ calc.out.read \subseteq DOMAIN calc.grid

\* nonZeroCount is the number of the values of `of` in S and maxHeight the
\* largest of them, 0 when S is empty
Counts(S, of(_)) ==
    /\ calc.out.nonZeroCount = Cardinality(S)
    /\ IF S = {} THEN calc.out.maxHeight = Zero
       ELSE /\ \E k \in S : calc.out.maxHeight = of(k)
            /\ \A k \in S : FCmp(of(k), calc.out.maxHeight) <= 0

\* C32 as stated: every flow-height grid produced by loadFrame has all
\* resolution^2 cells >= 0 (a sampled pixel that is NaN, negative or 0
\* becomes 0), nonZeroCount equal to the number of cells > 0, and maxHeight
\* equal to the largest cell value (0 when no cell is positive); every
\* source pixel index read lies inside the decoded raster.
C32_FrameCountsItsCells ==
    (calc.fn = "loadTiffFrame" /\ calc.done) =>
        /\ CellsNotNegative
        /\ Counts(PositiveCells, LAMBDA k : calc.out.flowHeights[k])

\* C32 amended: the grid has resolution^2 cells >= 0, each the nearest
\* 32-bit number of its sampled pixel where that is > 0 and 0 elsewhere;
\* nonZeroCount is the number of sampled pixels > 0 and maxHeight the
\* largest sampled pixel (0 when none is positive), both taken before the
\* value is stored in 32 bits, so they are the number of cells > 0 and the
\* largest cell when the raster is not in 64 bits; every pixel index read
\* lies inside the raster.
C32_FrameCountsItsSamples ==
    (calc.fn = "loadTiffFrame" /\ calc.done) =>
        /\ CellsNotNegative
        /\ \A k \in PositiveSamples :
              calc.out.flowHeights[k] = Fround(Sample(k))
        /\ Counts(PositiveSamples, Sample)
        /\ calc.type # "Float64Array"
              => Counts(PositiveCells, LAMBDA k : calc.out.flowHeights[k])

\* a 64-bit raster whose four pixels are all sampled: three are > 0, one
\* of them too small for 32 bits, and maxHeight is 1/10, which no cell is
C32_Witness ==
    /\ calc.fn = "loadTiffFrame" /\ calc.done
    /\ calc.type = "Float64Array" /\ calc.res = 2
    /\ calc.out.read = Indices(4)
    /\ calc.out.nonZeroCount = 3
    /\ Cardinality(PositiveCells) = 2
    /\ calc.out.maxHeight = Hundredths(10)
    /\ \A k \in PositiveCells : calc.out.flowHeights[k] # Hundredths(10)

\* C33: the manager constructs and initializes at most one engine per
\* simulation id, also when two loads of the same id that is not loaded
\* yet overlap: no two engines have one id, and an engine that has meshes
\* on the view is the engine the map holds for its id.
C33_OneEnginePerId ==
    /\ \A j, k \in DOMAIN engines : j.id = k.id => j = k
    /\ \A k \in DOMAIN engines :
          engines[k].viewGraphics # {} => k \in Range(manager.simulations)

\* the engines other than the active one
NotActive == DOMAIN engines \ {getActiveSimulation(ManagerWorld)}

\* C34: in every state where play-all mode is off and no call of the
\* manager is suspended, no engine other than the active one is playing or
\* has a visible mesh, for every interleaving of playAll, stopAll and
\* switchTo and after the calls made on every engine (setSmoothingAll,
\* setFlattenPassesAll, seekAllToTime, resetAll).
C34_OnlyActiveEngineOutsidePlayAll ==
    (~manager.playAllMode /\ tasks = <<>>) =>
        \A k \in NotActive :
            /\ ~engines[k].sim.state.isPlaying
            /\ \A t \in DOMAIN engines[k].sim.meshCache : ~Shows(engines[k], t)

\* C35: in every reachable state of an engine at most one of its meshes is
\* visible, and a visible mesh is the mesh of the engine's current frame:
\* of the time step at currentFrameIndex, which is the time recorded as
\* displayed.
C35_OnlyCurrentFrameVisible ==
    /\ Cardinality({ t \in DOMAIN sim.meshCache : Visible(t) }) <= 1
    /\ \A t \in DOMAIN sim.meshCache :
          Visible(t) => /\ t = sim.currentFrameTime
                        /\ HasIndex(sim.timeSteps, sim.state.currentFrameIndex)
                        /\ t = At(sim.timeSteps, sim.state.currentFrameIndex)
    /\ \A id \in DOMAIN graphics :
          graphics[id].visible => id \in Range(sim.meshCache)

\* a tick has moved a playing engine from its first frame to its second:
\* both frames have a mesh and only the second one's is visible
C35_Witness ==
    /\ lastOp.op = "tick"
    /\ sim.state.isPlaying
    /\ sim.state.currentFrameIndex = 1
    /\ HasMesh(At(sim.timeSteps, 0)) /\ ~Visible(At(sim.timeSteps, 0))
    /\ Visible(At(sim.timeSteps, 1))

\* the engine has its view, its frames' extent and its base elevation grid
Initialized(s) == s.view /\ s.baseGridData /\ s.meshExtent

\* the meshes an engine builds that has the time steps, the frame cache, the
\* base grid and the two parameters of s, and nothing left of earlier calls:
\* no mesh, no graphic and no upsampled ground grid
BuiltFrom(s) ==
    LET w == [ sim |-> [s EXCEPT !.meshCache = EmptyMap,
                                 !.smoothedGridData = <<>>],
               timers |-> EmptyMap, graphics |-> EmptyMap,
               viewGraphics |-> {}, emitted |-> <<>>, quiet |-> FALSE ]
    IN  MeshSet(rebuildMeshCache(updateSmoothedGrid(w)))

\* C36: setSmoothing and setFlattenPasses on an initialized engine leave the
\* frame cache and the base elevation grid as they are, and the meshes of
\* the cache they leave are those a build from the frame cache, the base
\* grid and the two current parameters alone gives: whatever calls came
\* before, equal parameters give equal mesh caches.
C36_CacheDependsOnParametersOnly ==
    /\ [][ (lastOp'.op \in {"setSmoothing", "setFlattenPasses"} /\ Initialized(sim))
              => /\ sim'.frameCache = sim.frameCache
                 /\ sim'.baseGridData = sim.baseGridData
                 /\ sim'.timeSteps = sim.timeSteps ]_vars
    /\ [] ( (lastOp.op \in {"setSmoothing", "setFlattenPasses"} /\ Initialized(sim))
              => MeshSet(World) = BuiltFrom(sim) )

\* setSmoothing(3), setFlattenPasses(0) and setSmoothing back to the
\* default on an engine with a mesh for every step: the cache is the one
\* of the parameters (default, 0)
C36_Witness ==
    /\ lastOp.op = "setSmoothing"
    /\ lastOp.arg = DefaultSmoothingFactor
    /\ sim.state.flattenPasses # DefaultFlattenPasses
    /\ Initialized(sim)
    /\ NumSteps >= 2
    /\ DOMAIN sim.meshCache = Range(sim.timeSteps)
    /\ \A t \in DOMAIN sim.meshCache :
          /\ graphics[sim.meshCache[t]].geometry.upsampled
          /\ graphics[sim.meshCache[t]].geometry.passes = sim.state.flattenPasses
    /\ MeshSet(World) = BuiltFrom(sim)

\* C37: on an engine that initialize() has completed on, after it and after
\* every setSmoothing / setFlattenPasses call, the upsampled ground grid is
\* there exactly when smoothingFactor > 1; it was generated with the
\* current factor and has ((baseRes - 1) * smoothingFactor + 1)^2 points,
\* as many as the upsampled flow grid of every mesh in the cache has cells.
C37_GroundGridMatchesFactor ==
    (Initialized(sim) /\ lastOp.op \in {"ready", "setSmoothing", "setFlattenPasses"})
       => LET factor == sim.state.smoothingFactor
              side == (GridResolution - 1) * factor + 1
          IN  /\ (sim.smoothedGridData # <<>>) <=> (factor > 1)
              /\ sim.smoothedGridData # <<>>
                    => /\ sim.smoothedGridData[1].factor = factor
                       /\ sim.smoothedGridData[1].points = side * side
                       /\ \A t \in DOMAIN sim.meshCache :
                             LET mesh == graphics[sim.meshCache[t]].geometry
                             IN  /\ mesh.upsampled
                                 /\ mesh.flowCells = sim.smoothedGridData[1].points
                                 /\ mesh.vertices = mesh.flowCells

\* setSmoothing(3) on an initialized engine with a mesh: the ground grid
\* and the mesh's flow grid have 298 * 298 cells
C37_Witness ==
    /\ lastOp.op = "setSmoothing" /\ lastOp.arg = 3
    /\ Initialized(sim)
    /\ sim.smoothedGridData # <<>>
    /\ sim.smoothedGridData[1].points = 298 * 298
    /\ \E t \in DOMAIN sim.meshCache :
          graphics[sim.meshCache[t]].geometry.flowCells = 298 * 298

\* the cells > 0 of the frame the mesh was built from
FlowCells == { k \in DOMAIN calc.out.flowData.flowHeights :
                 Positive(calc.out.flowData.flowHeights[k]) }

\* no mesh exactly when no cell is > 0, and a mesh has a triangle
AbsentWithoutFlow ==
    /\ (calc.out.mesh.exit # "mesh") <=> (FlowCells = {})
    /\ calc.out.mesh.exit = "mesh" => Len(calc.out.mesh.flatFaces) >= 1

\* C38 as stated: for a grid resolution >= 2 mesh building returns absent
\* exactly when the flow grid has no cell > 0, a mesh has at least one
\* triangle, with or without upsampling and for any number of passes, and
\* the exit for zero triangles is never taken when nonZeroCount > 0.
C38_NoTrianglesExitNeverTaken ==
    (calc.fn = "createMesh" /\ calc.done) =>
        /\ AbsentWithoutFlow
        /\ calc.out.flowData.nonZeroCount > 0
              => calc.out.mesh.exit # "noTriangles"

\* C38 amended: for a grid resolution >= 2 mesh building returns absent
\* exactly when the flow grid has no cell > 0, and a mesh has at least one
\* triangle, with or without upsampling and for any number of passes. The
\* exit for zero triangles is taken exactly for a frame that has
\* nonZeroCount > 0 and no cell > 0, which is a frame of a 64-bit raster
\* whose samples > 0 are all 0 in 32 bits; for other rasters it is never
\* taken.
C38_AbsentExactlyWithoutFlow ==
    (calc.fn = "createMesh" /\ calc.done) =>
        /\ AbsentWithoutFlow
        /\ (calc.out.mesh.exit = "noTriangles")
              <=> (calc.out.flowData.nonZeroCount > 0 /\ FlowCells = {})
        /\ calc.type # "Float64Array" => calc.out.mesh.exit # "noTriangles"

\* a 64-bit raster of 0 and Tiny, upsampled by 2 and flattened: counted
\* samples, no cell > 0, no triangle
C38_Witness ==
    /\ calc.fn = "createMesh" /\ calc.done
    /\ calc.type = "Float64Array"
    /\ calc.smoothingFactor = 2 /\ calc.passes = MaxPasses
    /\ calc.out.flowData.nonZeroCount > 0
    /\ FlowCells = {}
    /\ calc.out.mesh.exit = "noTriangles"

\* C39: in every state of an engine 0 <= currentFrameIndex < max(1, number
\* of time steps); a displayFrame of a valid index on an engine with its
\* view records the time of that index; the recorded time, once there is
\* one, stays until dispose(); and while there is one it is
\* timeSteps[currentFrameIndex].
C39_IndexInRangeAndTimeOfIndex ==
    /\ [] /\ 0 <= sim.state.currentFrameIndex
          /\ sim.state.currentFrameIndex < (IF NumSteps > 1 THEN NumSteps ELSE 1)
          /\ DisplayedValid => sim.currentFrameTime # NoTime
          /\ sim.currentFrameTime # NoTime
                => /\ HasIndex(sim.timeSteps, sim.state.currentFrameIndex)
                   /\ sim.currentFrameTime
                         = At(sim.timeSteps, sim.state.currentFrameIndex)
    /\ [][ (sim.currentFrameTime # NoTime /\ lastOp'.op # "dispose")
              => sim'.currentFrameTime # NoTime ]_vars

\* a tick at the last frame has wrapped to the first one
C39_Witness ==
    /\ lastOp.op = "tick"
    /\ NumSteps >= 2
    /\ sim.state.currentFrameIndex = 0
    /\ sim.currentFrameTime = At(sim.timeSteps, 0)
    /\ emitted # <<>>

\* no initialize() is between its call and its return
Returned == initPc \notin {"preload", "elevation"}

\* C40: after any sequence of initialize, setSmoothing, setFlattenPasses
\* and dispose the keys of the mesh cache are keys of the frame cache, the
\* keys of the frame cache are time steps, and the graphics on the view are
\* exactly the meshes of the mesh cache, each of them the mesh of one key.
C40_CachesAndSurfaceAgree ==
    Returned =>
        /\ DOMAIN sim.meshCache \subseteq DOMAIN sim.frameCache
        /\ DOMAIN sim.frameCache \subseteq Range(sim.timeSteps)
        /\ viewGraphics = Range(sim.meshCache)
        /\ Cardinality(Range(sim.meshCache)) = Cardinality(DOMAIN sim.meshCache)

====
